---- MODULE Spec2Model ----
(***************************************************************************)
(* State-machine model of the roguelike world server:                      *)
(*   index.js          session table, /narrate, /quest/* handlers          *)
(*   Engine.js         buildOutput, deepClone, quest validation / reward   *)
(*   ActionProcessor.js parseIntent, applyPlayerActions, quest actions,    *)
(*                     validateAndQueueIntent                              *)
(*   WorldGen.js       worldGenStep: movement, L1 window hydration         *)
(*                                                                         *)
(* JavaScript objects are mutable and shared by reference, so game states  *)
(* live in a heap (ref -> value); the session table and the locals of an   *)
(* in-flight request hold refs.                                            *)
(***************************************************************************)
EXTENDS Integers, Sequences, FiniteSets, TLC

VARIABLES
  heap,      \* ref -> game state object (the JS heap, restricted to live refs)
  session,   \* the sessionStates entry of the one session: [gameState: ref, isFirstTurn]
  reqs,      \* request slot -> locals and position of an in-flight /narrate handler
  applied,   \* ghost: number of buildOutput results stored since the last fresh state
  last,      \* ghost: the last finished operation, its result and the state before it
  call,      \* ghost: the last Engine.buildOutput call, its prevState before and after
  files,     \* the session's save directory: file name -> file content
  saving,    \* save slot -> locals and position of an in-flight performSave
  io,        \* ghost: the last finished performSave / performLoad and its result
  rolled,    \* the last quest the quest system produced
  plan,      \* planSitesForMacro at work on a macro cell: its locals, then the plan returned
  parser,    \* SemanticParser.js: the clock, _cache, the calls awaiting the language model
  npc,       \* the clock and the calls of generateNPC made, with what they returned
  layers,    \* state.world of the layer functions: settlements, l2_active, l3_active, current_layer
  structure, \* _generateQuestStructure at work: the step count, the loop index, the steps built
  retry      \* generateQuestNarrative at work: its attempt, the calls made and the waits taken

disk == <<files, saving, io>>
aux == <<rolled, plan, parser, npc, layers, structure, retry>>
vars == <<heap, session, reqs, applied, last, call, files, saving, io, rolled, plan, parser, npc, layers, structure, retry>>

----------------------------------------------------------------------------
(* Bounds of the model *)

MaxTurns == 4          \* turn_counter values explored
MaxCompleted == 2      \* length of quests.completed explored
MaxGold == 24          \* gold quantity explored
SaveTurns == 1         \* turns played between the saves
PlanClusters == 2      \* clusters of the macro's site plan explored
RngSteps == 15        \* RNG values explored: k / RngSteps, k in 0..RngSteps
MaxClock == 5         \* ticks the clocks run for
LayerClock == 2

(* Program constants *)

MaxActiveQuests == 10  \* quests.config.maxActiveQuests
L0W == 8
L0H == 8
L1W == 12
L1H == 12
StreamR == 2
StreamP == 1
NoRank == -1           \* an NPC whose quest_giver_rank is not a number
MaxSaves == 5          \* saves allowed per session
UndefinedSteps == -1   \* total_steps of a quest object that has no such field
maxRetries == 3       \* DeepSeekIntegration, this.maxRetries
retryDelay == 1000    \* DeepSeekIntegration, this.retryDelay, in ms
NaNStep == -2          \* current_step after Math.min(n, undefined)

----------------------------------------------------------------------------
(* Sequence helpers *)

Range(s) == { s[i] : i \in 1..Len(s) }

\* Array.prototype.findIndex: the first index (1-based) satisfying P, 0 when none
FindIndex(s, P(_)) ==
  IF \E i \in 1..Len(s) : P(s[i])
    THEN CHOOSE i \in 1..Len(s) : P(s[i]) /\ \A j \in 1..(i-1) : ~P(s[j])
    ELSE 0

\* Array.prototype.splice(idx, 1)
Splice(s, idx) == [i \in 1..(Len(s)-1) |-> IF i < idx THEN s[i] ELSE s[i+1]]

Min(a, b) == IF a < b THEN a ELSE b
Max(a, b) == IF a > b THEN a ELSE b
Abs(a) == IF a < 0 THEN -a ELSE a

----------------------------------------------------------------------------
(* Engine.initState: the fresh game state *)

EmptyCells == [k \in {} |-> [mx |-> 0, my |-> 0, lx |-> 0, ly |-> 0,
                             known |-> FALSE, hydrated |-> FALSE]]

initState ==
  [ turn_counter |-> 0,
    inventory    |-> << >>,
    active       |-> << >>,
    completed    |-> << >>,
    seeded       |-> << >>,     \* quests.allQuestsSeeded, flattened; each quest names its settlement
    npcs         |-> << >>,     \* world.settlements[*].npcs, flattened; each NPC names its settlement
    position     |-> [mx |-> 0, my |-> 0, lx |-> L1W \div 2, ly |-> L1H \div 2],
    cells        |-> EmptyCells,
    sites        |-> << >>,     \* world.sites: site id -> site object
    macro_biome  |-> "" ]       \* world.macro_biome; "" is undefined

----------------------------------------------------------------------------
(* WorldGen.js: movement and the L1 streaming window *)

clamp(v, lo, hi) == IF v < lo THEN lo ELSE IF v > hi THEN hi ELSE v

\* byKey: the canonical key of a cell, "L1:mx,my:lx,ly", as a tuple
byKey(mx, my, lx, ly) == <<mx, my, lx, ly>>

\* byKey of the earlier build (ActionProcessor.js copy): "M{mx}x{my}/L{lx}x{ly}"
byKeyLegacy(mx, my, lx, ly) == <<"M", mx, my, "L", lx, ly>>

Cheb(ax, ay, bx, by) == Max(Abs(ax - bx), Abs(ay - by))

clampPositionToMacro(p) ==
  [ mx |-> clamp(p.mx, 0, L0W - 1), my |-> clamp(p.my, 0, L0H - 1),
    lx |-> clamp(p.lx, 0, L1W - 1), ly |-> clamp(p.ly, 0, L1H - 1) ]

\* for contrast: a movement that does not test the grid's edges
applyMovementUnchecked(p, act) ==
  IF act.action # "move" \/ act.dir \notin {"n", "s", "e", "w"} THEN p
  ELSE [p EXCEPT !.lx = @ + (IF act.dir = "e" THEN 1 ELSE IF act.dir = "w" THEN -1 ELSE 0),
                 !.ly = @ + (IF act.dir = "s" THEN 1 ELSE IF act.dir = "n" THEN -1 ELSE 0)]

\* applyMovement: one step n/s/e/w; a step off the grid, or any other action, is a no-op
applyMovement(p, act) ==
  IF act.action # "move" \/ act.dir \notin {"n", "s", "e", "w"} THEN p
  ELSE LET nx == p.lx + (IF act.dir = "e" THEN 1 ELSE IF act.dir = "w" THEN -1 ELSE 0)
           ny == p.ly + (IF act.dir = "s" THEN 1 ELSE IF act.dir = "n" THEN -1 ELSE 0)
       IN IF nx < 0 \/ ny < 0 \/ nx >= L1W \/ ny >= L1H THEN p
          ELSE [p EXCEPT !.lx = nx, !.ly = ny]

\* for contrast: an eviction test that is one ring too lenient
EvictBeyondLoose(dist) == dist > (StreamR + StreamP) + 1

\* for contrast: an eviction test at R, inside the ring the first loop creates
EvictBeyondTight(dist) == dist > StreamR

\* the eviction test of hydrateL1Window's second loop
EvictBeyond(dist) == dist > (StreamR + StreamP)

\* the keys the first loop of hydrateL1Window visits: the on-grid cells within R+P
WindowOf(p) ==
  { byKey(p.mx, p.my, x, y) :
      x \in Max(0, p.lx - (StreamR + StreamP))..Min(L1W - 1, p.lx + (StreamR + StreamP)),
      y \in Max(0, p.ly - (StreamR + StreamP))..Min(L1H - 1, p.ly + (StreamR + StreamP)) }

\* whether the first loop visits the cell under key k
InWindow(k, p) ==
  /\ Len(k) = 4
  /\ k[1] = p.mx /\ k[2] = p.my
  /\ k[3] >= 0 /\ k[3] < L1W /\ k[4] >= 0 /\ k[4] < L1H
  /\ Cheb(k[3], k[4], p.lx, p.ly) <= StreamR + StreamP

\* for contrast: a markCell that creates a missing cell but leaves an existing one as it is
markCellOnce(cells, p, k) ==
  IF k \in DOMAIN cells
    THEN cells[k]
    ELSE [mx |-> p.mx, my |-> p.my, lx |-> k[3], ly |-> k[4], known |-> TRUE,
          hydrated |-> (Cheb(k[3], k[4], p.lx, p.ly) <= StreamR)]

\* markCell(lx, ly, hydrated) on the cell under key k: created, or touched
markCell(cells, p, k) ==
  IF k \in DOMAIN cells
    THEN [cells[k] EXCEPT !.known = TRUE, !.hydrated = (Cheb(k[3], k[4], p.lx, p.ly) <= StreamR)]
    ELSE [mx |-> p.mx, my |-> p.my, lx |-> k[3], ly |-> k[4], known |-> TRUE,
          hydrated |-> (Cheb(k[3], k[4], p.lx, p.ly) <= StreamR)]

\* the second loop: a cell of the current macro is deleted when it lies beyond R+P
Evicted(c, p) == c.mx = p.mx /\ c.my = p.my /\ EvictBeyond(Cheb(c.lx, c.ly, p.lx, p.ly))

\* hydrateL1Window(state, deltas): the cells after both loops
hydrateL1Window(cells, p) ==
  [k \in { j \in (DOMAIN cells) \cup WindowOf(p) :
             IF InWindow(j, p) THEN ~Evicted(markCell(cells, p, j), p)
                               ELSE ~Evicted(cells[j], p) }
     |-> IF InWindow(k, p) THEN markCell(cells, p, k) ELSE cells[k]]

\* the deltas hydrateL1Window pushes: add for created cells, set for touched ones, del for evicted
hydrateDeltas(cells, p) ==
        { <<"add", k>> : k \in WindowOf(p) \ DOMAIN cells }
   \cup { <<"set", k>> : k \in { c \in WindowOf(p) \cap DOMAIN cells : markCell(cells, p, c) # cells[c] } }
   \cup { <<"del", k>> : k \in ((DOMAIN cells) \cup WindowOf(p)) \ DOMAIN hydrateL1Window(cells, p) }

\* for contrast: a normalisation that moves every cell to the earlier build's key
legacyCellKeys(cells) ==
  [ w \in { byKeyLegacy(cells[k].mx, cells[k].my, cells[k].lx, cells[k].ly) : k \in DOMAIN cells } |->
      cells[CHOOSE k \in DOMAIN cells :
              byKeyLegacy(cells[k].mx, cells[k].my, cells[k].lx, cells[k].ly) = w] ]

\* the key a cell belongs under
OwnKey(c) == byKey(c.mx, c.my, c.lx, c.ly)

\* normalizeCellKeys: a cell stored under a key other than its own is moved to its own key
normalizeCellKeys(cells) ==
  IF \A k \in DOMAIN cells : OwnKey(cells[k]) = k THEN cells
  ELSE [w \in { OwnKey(cells[k]) : k \in DOMAIN cells } |->
          IF \E k \in DOMAIN cells : k # w /\ OwnKey(cells[k]) = w
            THEN cells[CHOOSE k \in DOMAIN cells : k # w /\ OwnKey(cells[k]) = w]
            ELSE cells[w]]

\* the position after the sanity clamp and the movement
stepPosition(state, act) == applyMovement(clampPositionToMacro(state.position), act)

\* the site plan of macro (0,0), as planSitesForMacro caches it in macro.site_plan:
\* one city of footprint 3 placed first, then towns, every centre (first cell) at
\* Chebyshev distance >= 3 from the centres placed before it.  Cells are <<lx, ly>>.
Cluster(tier, n, cells) == [tier |-> tier, cluster_id |-> <<0, 0, n>>, cells |-> cells]

SitePlan ==
  << Cluster("city", 1, << <<8, 7>>, <<9, 7>>, <<9, 8>> >>),
     Cluster("town", 2, << <<3, 3>> >>),
     Cluster("town", 3, << <<1, 8>> >>),
     Cluster("town", 4, << <<5, 10>> >>),
     Cluster("town", 5, << <<10, 2>> >>),
     Cluster("town", 6, << <<2, 0>> >>),
     Cluster("town", 7, << <<10, 11>> >>) >>

\* planSitesForMacro: the plan of the macro, here its first PlanClusters clusters
planSitesForMacro(mx, my) ==
  IF mx = 0 /\ my = 0 THEN SubSeq(SitePlan, 1, Min(PlanClusters, Len(SitePlan))) ELSE << >>

\* siteId: "M{mx}x{my}/S{clusterId}#{segIndex}", as a tuple
siteId(mx, my, clusterId, segIndex) == <<"S", mx, my, clusterId, segIndex>>

\* the hydrated gate of exposeSitesInWindow: the own keys of the hydrated cells of the macro
HydratedKeys(cells, p) ==
  { OwnKey(cells[id]) : id \in { j \in DOMAIN cells :
        cells[j].mx = p.mx /\ cells[j].my = p.my /\ cells[j].hydrated } }

\* the (cluster, segment) pairs whose cell lies within R+P and is hydrated
SegmentsInWindow(cells, p) ==
  UNION { { ci \in { <<c, i>> : c \in 1..Len(planSitesForMacro(p.mx, p.my)), i \in 1..3 } :
              /\ ci[2] <= Len(planSitesForMacro(p.mx, p.my)[ci[1]].cells)
              /\ Cheb(planSitesForMacro(p.mx, p.my)[ci[1]].cells[ci[2]][1],
                      planSitesForMacro(p.mx, p.my)[ci[1]].cells[ci[2]][2], p.lx, p.ly)
                    <= StreamR + StreamP
              /\ byKey(p.mx, p.my, planSitesForMacro(p.mx, p.my)[ci[1]].cells[ci[2]][1],
                                   planSitesForMacro(p.mx, p.my)[ci[1]].cells[ci[2]][2]) \in known }
          : known \in { HydratedKeys(cells, p) } }

\* the site object of segment i (1-based here, seg_index i-1) of cluster c
SiteObj(p, c, i) ==
  [ id |-> siteId(p.mx, p.my, planSitesForMacro(p.mx, p.my)[c].cluster_id, i - 1),
    mx |-> p.mx, my |-> p.my,
    cluster_id |-> planSitesForMacro(p.mx, p.my)[c].cluster_id,
    seg_index |-> i - 1,
    tier |-> planSitesForMacro(p.mx, p.my)[c].tier,
    cells |-> planSitesForMacro(p.mx, p.my)[c].cells,
    promoted |-> FALSE ]

\* for contrast: a reveal that lists only the sites whose cell is in the window now
exposeOnlyVisible(sites, cells, p) ==
  [ id \in { SiteObj(p, ci[1], ci[2]).id : ci \in SegmentsInWindow(cells, p) } |->
      SiteObj(p, (CHOOSE ci \in SegmentsInWindow(cells, p) : SiteObj(p, ci[1], ci[2]).id = id)[1],
                 (CHOOSE ci \in SegmentsInWindow(cells, p) : SiteObj(p, ci[1], ci[2]).id = id)[2]) ]

\* exposeSitesInWindow: world.sites after the reveal; a site already there is kept as it is
exposeSitesInWindow(sites, cells, p) ==
  CHOOSE out \in
    { [ id \in (DOMAIN sites) \cup { SiteObj(p, ci[1], ci[2]).id : ci \in segs } |->
          IF id \in DOMAIN sites THEN sites[id]
          ELSE SiteObj(p, (CHOOSE ci \in segs : SiteObj(p, ci[1], ci[2]).id = id)[1],
                          (CHOOSE ci \in segs : SiteObj(p, ci[1], ci[2]).id = id)[2]) ]
      : segs \in { SegmentsInWindow(cells, p) } } : TRUE

\* the deltas exposeSitesInWindow pushes: one add per site created
exposeDeltas(sites, cells, p) ==
  { <<"add", id>> : id \in (DOMAIN exposeSitesInWindow(sites, cells, p)) \ DOMAIN sites }

\* the state after movement and window hydration
hydratedState(state, act) ==
  [[state EXCEPT !.position = applyMovement(clampPositionToMacro(@), act)]
          EXCEPT !.cells = hydrateL1Window(@, stepPosition(state, act))]

\* the site reveal and the key normalisation on the hydrated state
revealAndNormalize(st) ==
  [[st EXCEPT !.sites = exposeSitesInWindow(@, st.cells, st.position)]
       EXCEPT !.cells = normalizeCellKeys(@)]

\* worldGenStep: position sanity, movement, window, site reveal, key normalisation
worldGenStep(state, act) ==
  CHOOSE out \in { revealAndNormalize(st) : st \in { hydratedState(state, act) } } : TRUE

\* the deltas worldGenStep pushes
worldGenDeltas(state, act) ==
  (IF stepPosition(state, act) # clampPositionToMacro(state.position)
     THEN {<<"set", <<"position">> >>} ELSE {})
    \cup hydrateDeltas(state.cells, stepPosition(state, act))
    \cup exposeDeltas(state.sites, hydratedState(state, act).cells, stepPosition(state, act))

----------------------------------------------------------------------------
(* Engine.js: quest validation and reward (used by POST /quest/accept, /quest/complete) *)

HasId(s, id) == \E i \in 1..Len(s) : s[i].id = id

\* for contrast: an acceptance check without the cap
validateQuestAcceptanceNoCap(state, questId) ==
  IF ~HasId(state.seeded, questId) THEN "QUEST_NOT_FOUND"
  ELSE IF HasId(state.active, questId) THEN "QUEST_ALREADY_ACTIVE"
  ELSE "ok"

\* validateQuestAcceptance(state, questId): the error code, or "ok"
validateQuestAcceptance(state, questId) ==
  IF Len(state.active) >= MaxActiveQuests THEN "ACTIVE_QUEST_LIMIT"
  ELSE IF ~HasId(state.seeded, questId) THEN "QUEST_NOT_FOUND"
  ELSE IF HasId(state.active, questId) THEN "QUEST_ALREADY_ACTIVE"
  ELSE "ok"

\* validateQuestCompletion(state, questId): the error code, or "ok"
validateQuestCompletion(state, questId) ==
  LET idx == FindIndex(state.active, LAMBDA q : q.id = questId)
  IN IF idx = 0 THEN "QUEST_NOT_FOUND"
     ELSE IF state.active[idx].current_step # state.active[idx].total_steps THEN "INCOMPLETE_QUEST"
     ELSE "ok"

\* applyQuestReward(state, quest): the inventory after the reward
applyQuestReward(inventory, quest) ==
  LET g == FindIndex(inventory, LAMBDA it : it.type = "gold")
  IN IF g # 0
       THEN [inventory EXCEPT ![g].quantity = inventory[g].quantity + quest.reward_gold]
       ELSE Append(inventory, [type |-> "gold", name |-> <<"gold", "coins">>, aliases |-> {},
                               quantity |-> quest.reward_gold])

----------------------------------------------------------------------------
(* ActionProcessor.js: quest actions applied inside a turn *)

\* getNPCInSettlement: index of the NPC in state.npcs, 0 when absent
getNPCInSettlement(state, settlementId, npcId) ==
  FindIndex(state.npcs, LAMBDA n : n.settlement = settlementId /\ n.id = npcId)

\* An NPC id is the string npc_<settlementId>_<index>, held as its "_"-separated
\* parts <<"npc", settlementId, index>>.  The pattern /^npc_([^_]+)_\d+$/ :
Digits == {"0", "1", "2", "3"}
MatchesNpcId(t) == Len(t) = 3 /\ t[1] = "npc" /\ t[3] \in Digits

\* validateQuestAction(action, _, state): [error, questId]; error "ok" when valid
validateQuestAction(action, state) ==
  LET npcId == action.target
      sid   == npcId[2]
      n     == getNPCInSettlement(state, sid, npcId)
      mine  == FindIndex(state.seeded, LAMBDA q : q.settlement = sid /\ q.giver_npc_id = npcId)
      Err(e) == [error |-> e, questId |-> 0]
  IN IF npcId = <<>> THEN Err("NO_NPC_TARGET")
     ELSE IF ~MatchesNpcId(npcId) THEN Err("INVALID_NPC_ID_FORMAT")
     ELSE IF n = 0 THEN Err("NPC_NOT_FOUND")
     ELSE IF state.npcs[n].quest_giver_rank = NoRank \/ state.npcs[n].quest_giver_rank <= 0
       THEN Err("NPC_NOT_QUEST_GIVER")
     ELSE IF action.action = "accept_quest" THEN
       IF mine = 0 THEN Err("NO_QUEST_AVAILABLE")
       ELSE IF HasId(state.active, state.seeded[mine].id) THEN Err("QUEST_ALREADY_ACTIVE")
       ELSE IF HasId(state.completed, state.seeded[mine].id) THEN Err("QUEST_ALREADY_COMPLETED")
       ELSE IF Len(state.active) >= MaxActiveQuests THEN Err("MAX_ACTIVE_QUESTS_REACHED")
       ELSE [error |-> "ok", questId |-> state.seeded[mine].id]
     ELSE IF action.action = "complete_quest" THEN
       LET a == FindIndex(state.active, LAMBDA q : q.id = action.questId)
       IN IF action.questId = 0 THEN Err("NO_QUEST_ID")
          ELSE IF a = 0 THEN Err("QUEST_NOT_ACTIVE")
          ELSE IF state.active[a].giver_npc_id # npcId THEN Err("WRONG_QUEST_GIVER")
          ELSE [error |-> "ok", questId |-> action.questId]
     ELSE IF action.action = "ask_about_quest" THEN [error |-> "ok", questId |-> 0]
     ELSE Err("UNKNOWN_QUEST_ACTION")

\* updateNPCQuestState(action, state, ...): re-validates, then accepts or completes
updateNPCQuestState(action, state) ==
  LET v   == validateQuestAction(action, state)
      sid == action.target[2]
  IN IF v.error # "ok" THEN state
     ELSE IF action.action = "accept_quest" THEN
       LET s == FindIndex(state.seeded, LAMBDA q : q.settlement = sid /\ q.id = v.questId)
       IN IF s = 0 THEN state
          ELSE [state EXCEPT !.active = Append(@, [state.seeded[s] EXCEPT !.status = "active"])]
     ELSE IF action.action = "complete_quest" THEN
       LET a == FindIndex(state.active, LAMBDA q : q.id = v.questId)
           n == FindIndex(state.npcs, LAMBDA x : x.settlement = sid /\ x.id = action.target)
       IN IF a = 0 THEN state
          ELSE [state EXCEPT
                  !.active    = Splice(@, a),
                  !.completed = Append(@, [state.active[a] EXCEPT !.status = "completed"]),
                  !.npcs      = IF n # 0 /\ state.npcs[n].quest_giver_rank > 0
                                  THEN [@ EXCEPT ![n].quest_giver_rank = @ - 1]
                                  ELSE @]
     ELSE state

----------------------------------------------------------------------------
(* ActionProcessor.js: text.  A text is its sequence of lower-case words;    *)
(* Spell gives the characters of a word for the edit distance.              *)

Spell(w) ==
  CASE w = "dagger" -> <<"d","a","g","g","e","r">>
    [] w = "rusty"  -> <<"r","u","s","t","y">>
    [] w = "gold"   -> <<"g","o","l","d">>
    [] w = "coins"  -> <<"c","o","i","n","s">>
    [] w = "the"    -> <<"t","h","e">>
    [] w = "a"      -> <<"a">>
    [] w = "windy"  -> <<"w","i","n","d","y">>
    [] w = "coast"  -> <<"c","o","a","s","t">>
    [] w = "of"     -> <<"o","f">>
    [] w = "pine"   -> <<"p","i","n","e">>
    [] w = "islands" -> <<"i","s","l","a","n","d","s">>
    [] w = "sand"   -> <<"s","a","n","d">>
    [] w = "sea"    -> <<"s","e","a">>
    [] w = "ice"    -> <<"i","c","e">>
    [] w = "farm"   -> <<"f","a","r","m">>
    [] w = "city"   -> <<"c","i","t","y">>
    [] w = "forest" -> <<"f","o","r","e","s","t">>
    [] w = "dragon" -> <<"d","r","a","g","o","n">>
    [] w = "god"    -> <<"g","o","d">>
    [] w = "warlord" -> <<"w","a","r","l","o","r","d">>
    [] w = "ancient" -> <<"a","n","c","i","e","n","t">>
    [] w = "demon"  -> <<"d","e","m","o","n">>
    [] w = "help"   -> <<"h","e","l","p">>
    [] OTHER        -> <<"?">>

RECURSIVE Chars(_)
\* the characters of a text, words joined by one blank
Chars(ws) ==
  IF ws = <<>> THEN <<>>
  ELSE IF Len(ws) = 1 THEN Spell(ws[1])
  ELSE Spell(ws[1]) \o <<" ">> \o Chars(Tail(ws))

RECURSIVE LevRow(_, _, _, _, _)
\* one row of the dynamic programme: acc holds dp[0..j-1] of row i, prev the row i-1
LevRow(a, b, i, prev, acc) ==
  LET j == Len(acc)
  IN IF j > Len(b) THEN acc
     ELSE LET cost == IF a[i] = b[j] THEN 0 ELSE 1
              v    == Min(Min(prev[j+1] + 1, acc[j] + 1), prev[j] + cost)
              next == Append(acc, v)
          IN IF Len(next) > j THEN LevRow(a, b, i, prev, next) ELSE acc

RECURSIVE LevFrom(_, _, _, _)
LevFrom(a, b, i, prev) ==
  IF i > Len(a) THEN prev[Len(b) + 1]
  ELSE LET row == LevRow(a, b, i, prev, <<i>>)
       IN IF Len(row) > 0 THEN LevFrom(a, b, i + 1, row) ELSE 0

\* levenshtein(a, b) on the characters of two texts
levenshtein(a, b) ==
  LET ca == Chars(a)
      cb == Chars(b)
  IN LevFrom(ca, cb, 1, [j \in 1..(Len(cb) + 1) |-> j - 1])

SetMin(S) == CHOOSE x \in S : \A y \in S : x <= y

\* aliasScore(query, name, aliases, ctxBonus)
aliasScore(q, name, aliases, ctxBonus) ==
  LET dist == SetMin({levenshtein(q, name)} \cup { levenshtein(q, al) : al \in aliases })
  IN   (IF q = name THEN 10 ELSE 0)
     + (IF q \in aliases THEN 6 ELSE 0)
     + (IF dist > 2 THEN -2 ELSE 0)
     + Max(0, Min(ctxBonus, 4))

\* the acceptance test of resolveItemByName: best score and its gap to the second
ResolveAccepts(best, second) == best >= 20 /\ best - second >= 10

\* resolveItemByName(state, query): index of the resolved inventory item, 0 when none
resolveItemByName(inv, q) ==
  IF inv = <<>> THEN 0
  ELSE LET sc(i)  == aliasScore(q, inv[i].name, inv[i].aliases, 2)
           best   == CHOOSE i \in 1..Len(inv) :
                       /\ \A j \in 1..Len(inv) : sc(j) <= sc(i)
                       /\ \A j \in 1..(i-1) : sc(j) < sc(i)
           second == IF Len(inv) = 1 THEN -9999
                     ELSE SetMin({ -sc(j) : j \in (1..Len(inv)) \ {best} }) * (-1)
       IN IF ResolveAccepts(sc(best), second) THEN best ELSE 0

NoAction == [action |-> "noop", target |-> <<>>, dir |-> "", questId |-> 0]

Articles == {"the", "a", "an"}
StripArticle(ws) == IF Len(ws) >= 2 /\ ws[1] \in Articles THEN Tail(ws) ELSE ws

\* parseIntent(text): look / take X / drop X; anything else is undefined, here NoAction
parseIntent(t) ==
  IF t \in {<<"look">>, <<"look", "around">>, <<"observe">>, <<"scan">>}
    THEN [NoAction EXCEPT !.action = "look"]
  ELSE IF Len(t) >= 2 /\ t[1] \in {"grab", "take"}
    THEN [NoAction EXCEPT !.action = "take", !.target = StripArticle(Tail(t))]
  ELSE IF Len(t) >= 3 /\ t[1] = "pick" /\ t[2] = "up"
    THEN [NoAction EXCEPT !.action = "take", !.target = StripArticle(Tail(Tail(t)))]
  ELSE IF Len(t) >= 2 /\ t[1] = "drop"
    THEN [NoAction EXCEPT !.action = "drop", !.target = StripArticle(Tail(t))]
  ELSE NoAction

\* applyPlayerActions(state, actions, deltas, flags): the state after, and the deltas pushed
applyPlayerActions(state, act) ==
  IF act.action = "drop" THEN
    LET r == resolveItemByName(state.inventory, act.target)
    IN IF r # 0
         THEN [state  |-> [state EXCEPT !.inventory = Splice(@, r)],
               deltas |-> {<<"set", <<"inventory">> >>}]
         ELSE [state |-> state, deltas |-> {}]
  ELSE IF act.action \in {"accept_quest", "complete_quest"} THEN
    LET s2 == updateNPCQuestState(act, state)
    IN [state  |-> s2,
        deltas |-> IF s2 # state THEN {<<"set", <<"quests">> >>} ELSE {}]
  ELSE [state |-> state, deltas |-> {}]

----------------------------------------------------------------------------
(* ActionProcessor.js: validation of a normalized intent (no state mutation) *)

\* isValidDir(dir): the canonical long name, "" when the direction is not valid
isValidDir(dir) ==
  LET canon == CASE dir = "n" -> "north" [] dir = "s" -> "south" [] dir = "e" -> "east"
                 [] dir = "w" -> "west"  [] dir = "u" -> "up"    [] dir = "d" -> "down"
                 [] OTHER -> dir
  IN IF canon \in {"north", "south", "east", "west", "up", "down"} THEN canon ELSE ""

\* hasInventoryItem(state, name): case-insensitive name equality
hasInventoryItem(state, name) == \E i \in 1..Len(state.inventory) : state.inventory[i].name = name

\* the check validateAndQueueIntent makes of one queued action: a reason code, or "ok".
\* world.current_cell and world.npcs are never populated, so no cell item resolves
\* and no NPC is present.
ValidateOne(state, act) ==
  IF act.action = "" THEN "EMPTY_ACTION"
  ELSE IF act.action = "move" THEN (IF isValidDir(act.dir) = "" THEN "INVALID_DIRECTION" ELSE "ok")
  ELSE IF act.action = "take" THEN "TARGET_NOT_FOUND_IN_CELL"
  ELSE IF act.action = "drop"
    THEN (IF hasInventoryItem(state, act.target) THEN "ok" ELSE "TARGET_NOT_IN_INVENTORY")
  ELSE IF act.action = "examine"
    THEN (IF hasInventoryItem(state, act.target) THEN "ok" ELSE "TARGET_NOT_VISIBLE")
  ELSE IF act.action = "talk" THEN "NPC_NOT_PRESENT"
  ELSE IF act.action \in {"accept_quest", "complete_quest", "ask_about_quest"}
    THEN validateQuestAction(act, state).error
  ELSE "ok"

\* for contrast: a validation that hands back the queue it built when it rejects
validateKeepingQueue(state, intent) ==
  LET queue == IF intent.compound THEN <<intent.primary>> \o intent.secondaries
                                  ELSE <<intent.primary>>
      bad   == FindIndex(queue, LAMBDA a : ValidateOne(state, a) # "ok")
  IN [valid |-> bad = 0, queue |-> queue,
      reason |-> IF bad = 0 THEN "ok" ELSE ValidateOne(state, queue[bad])]

\* validateAndQueueIntent(state, normalizedIntent): [valid, queue, reason]
validateAndQueueIntent(state, intent) ==
  LET queue == IF intent.compound THEN <<intent.primary>> \o intent.secondaries
                                  ELSE <<intent.primary>>
      bad   == FindIndex(queue, LAMBDA a : ValidateOne(state, a) # "ok")
  IN IF intent.primary.action = ""
       THEN [valid |-> FALSE, queue |-> <<>>, reason |-> "NO_PRIMARY_ACTION"]
     ELSE IF bad # 0
       THEN [valid |-> FALSE, queue |-> <<>>, reason |-> ValidateOne(state, queue[bad])]
     ELSE [valid |-> TRUE,
           queue |-> [i \in 1..Len(queue) |->
                        IF queue[i].action = "move"
                          THEN [queue[i] EXCEPT !.dir = isValidDir(queue[i].dir)]
                          ELSE queue[i]],
           reason |-> "ok"]

----------------------------------------------------------------------------
(* Engine.js: deepClone and buildOutput *)

Refs == 1..6

\* a ref no live variable holds (the allocator's choice is not observable)
FreshRef(h) == CHOOSE r \in Refs : r \notin DOMAIN h

\* for contrast: a clone that is the object itself (no copy is made)
deepCloneAlias(h, ref) == [heap |-> h, ref |-> ref]

\* deepClone(input): a new object holding a copy of the value
deepClone(h, ref) ==
  LET c == FreshRef(h)
  IN [heap |-> [r \in (DOMAIN h) \cup {c} |-> IF r = c THEN h[ref] ELSE h[r]], ref |-> c]

\* contrast: an engine call that counts the turn twice
NextTurnCounterTwice(tc) == tc + 2

\* the turn counter after one buildOutput
NextTurnCounter(tc) == tc + 1

\* what buildOutput does to its clone up to the failure point: the player actions
engineActions(state, act) == applyPlayerActions(state, act).state

\* desc.includes(kw) on the characters of a text
Includes(desc, kw) ==
  \E i \in 0..(Len(desc) - Len(kw)) : SubSeq(desc, i + 1, i + Len(kw)) = kw

\* WorldGen.js BIOME_KEYWORDS in the order of its entries, of each biome the
\* keywords that occur in the prompts explored
BiomeOrder == <<"urban", "rural", "forest", "desert", "tundra", "coast">>
BIOME_KEYWORDS ==
  [b \in {"urban", "rural", "forest", "desert", "tundra", "coast"} |->
     CASE b = "urban"  -> {"city"}
       [] b = "rural"  -> {"farm"}
       [] b = "forest" -> {"forest"}
       [] b = "desert" -> {"sand"}
       [] b = "tundra" -> {"ice"}
       [] b = "coast"  -> {"coast", "sea"}]
Matches(desc, biome) ==
  Cardinality({ kw \in BIOME_KEYWORDS[biome] : Includes(Chars(desc), Spell(kw)) })

\* the biome with the most keyword matches, the first of them in entry order;
\* rural when no keyword matches
bestBiome(desc) ==
  IF \A i \in DOMAIN BiomeOrder : Matches(desc, BiomeOrder[i]) = 0 THEN "rural"
  ELSE BiomeOrder[CHOOSE i \in DOMAIN BiomeOrder :
                    /\ \A j \in DOMAIN BiomeOrder : Matches(desc, BiomeOrder[j]) <= Matches(desc, BiomeOrder[i])
                    /\ \A j \in 1..(i - 1) : Matches(desc, BiomeOrder[j]) < Matches(desc, BiomeOrder[i])]

\* detectBiome(desc) of the other WorldGen.js of the repository: the first biome in
\* entry order one of whose keywords occurs; it is what generateWorldFromDescription(desc,
\* worldSeed) there calls, a function the Engine's call does not fit
detectBiome(desc) ==
  IF \A i \in DOMAIN BiomeOrder : Matches(desc, BiomeOrder[i]) = 0 THEN "rural"
  ELSE BiomeOrder[CHOOSE i \in DOMAIN BiomeOrder :
                    /\ Matches(desc, BiomeOrder[i]) > 0
                    /\ \A j \in 1..(i - 1) : Matches(desc, BiomeOrder[j]) = 0]

\* generateWorldFromDescription(state, description): a shallow copy of the state
\* whose world, shared with the state, has macro_biome set
generateWorldFromDescription(state, description) ==
  [state EXCEPT !.macro_biome = bestBiome(description)]

\* worldData.biome as buildOutput reads it: the top-level field of the returned
\* object, undefined ("") when the object has none
BiomeOf(worldData) == IF "biome" \in DOMAIN worldData THEN worldData.biome ELSE ""

\* the WORLD_PROMPT of an input, << >> when it has none
WorldPrompt(input) == IF "WORLD_PROMPT" \in DOMAIN input THEN input.WORLD_PROMPT ELSE << >>

\* lines 275-285 of buildOutput: the biome initialisation of a state without one
initBiome(state, input) ==
  IF state.macro_biome = "" /\ WorldPrompt(input) # << >>
    THEN [state EXCEPT !.macro_biome = BiomeOf(generateWorldFromDescription(state, WorldPrompt(input)))]
    ELSE state

\* what buildOutput does to its clone: player actions, biome, worldgen step, turn counter
engineTurn(state, input) ==
  [worldGenStep(initBiome(applyPlayerActions(state, parseIntent(input.raw)).state, input),
                parseIntent(input.raw))
     EXCEPT !.turn_counter = NextTurnCounter(@)]

\* buildOutput(prevState, inputObj).  input.raw is player_intent.raw; throws says
\* whether the worldgen step raises.  Result: the heap after the call, whether it
\* threw, and the ref of the returned state.
buildOutput(h, prevRef, input, throws) ==
  [ heap  |-> [deepClone(h, prevRef).heap EXCEPT ![deepClone(h, prevRef).ref] =
                 IF throws THEN engineActions(@, parseIntent(input.raw))
                           ELSE engineTurn(@, input)],
    threw |-> throws,
    ref   |-> deepClone(h, prevRef).ref ]

\* stateFingerprintFullHex: the SHA-256 digest of the JSON projection of the state,
\* as the projection itself (two states get one digest iff their projections are
\* equal).  Of the projected fields the record carries turn_counter, player and
\* world; world.time_utc, counters and history_len, which buildOutput changes on
\* every call, are projected too.
stateFingerprintFullHex(state) ==
  [ turn_counter |-> state.turn_counter,
    player       |-> state.inventory,
    world        |-> [position |-> state.position, cells |-> state.cells,
                      sites |-> state.sites, settlements |-> state.npcs] ]

\* the deltas of block 1 of a buildOutput that returns: the time, what the actions
\* and the worldgen step push, and the state_rev increment pushed because the list
\* is not empty
buildOutputDeltas(state, input) ==
  {<<"set", <<"time_utc">> >>, <<"inc", <<"counters", "state_rev">> >>}
    \cup applyPlayerActions(state, parseIntent(input.raw)).deltas
    \cup (IF <<"set", <<"inventory">> >> \in applyPlayerActions(state, parseIntent(input.raw)).deltas
            THEN {<<"inc", <<"counters", "inventory_rev">> >>} ELSE {})
    \cup worldGenDeltas(applyPlayerActions(state, parseIntent(input.raw)).state, parseIntent(input.raw))

----------------------------------------------------------------------------
(* index.js: the session table and the /narrate handler *)

Entry(h, sess) == [state |-> h[sess.gameState], isFirstTurn |-> sess.isFirstTurn]
Stored == Entry(heap, session)

NoEntry == [state |-> initState, isFirstTurn |-> TRUE]
IdleReq == [pc |-> "idle", gameState |-> 0, isFirstTurn |-> FALSE, text |-> <<>>,
            queue |-> <<>>, i |-> 0, pending |-> 0, pre |-> NoEntry]

\* the refs some variable still holds
Live(sess, rq) ==
  ({sess.gameState} \cup { rq[r].gameState : r \in DOMAIN rq } \cup { rq[r].pending : r \in DOMAIN rq })
    \ {0}
Collect(h, sess, rq) == [x \in Live(sess, rq) \cap DOMAIN h |-> h[x]]

\* initializeGame(): a new object holding Engine.initState()
initializeGame(h) ==
  LET c == FreshRef(h)
  IN [heap |-> [r \in (DOMAIN h) \cup {c} |-> IF r = c THEN initState ELSE h[r]], ref |-> c]

\* detectSystemCommand, by its effect: "new" replaces the session state, "same" keeps it
SystemCommand(t) ==
  IF t \in {<<"new", "game">>, <<"restart">>, <<"start", "over">>} THEN "new"
  ELSE IF t[1] = "save" \/ t \in {<<"saves">>, <<"quests">>} THEN "same"
  ELSE "none"

\* restartKeywords.some(kw => actionLower.includes(kw))
HasRestartKeyword(t) ==
  \/ \E i \in 1..Len(t) : t[i] = "restart"
  \/ \E i \in 1..(Len(t) - 1) : <<t[i], t[i+1]>> \in {<<"new", "world">>, <<"begin", "again">>}

\* ghost: the validated queue's length, the engine calls made, the reason code given
Info(n, calls, reason) == [n |-> n, calls |-> calls, reason |-> reason, arg |-> NoAction]

\* typeof x === 'number', for a field that may be absent: << >> is undefined
IsNumber(x) == Len(x) = 1

\* the request leaves the handler: its locals die, the ghost records what it did
Finish(r, result, sess, h, app, info) ==
  /\ session' = sess
  /\ reqs' = [reqs EXCEPT ![r] = IdleReq]
  /\ heap' = Collect(h, sess, reqs')
  /\ applied' = app
  /\ last' = [op |-> "narrate", result |-> result, pre |-> reqs[r].pre,
              post |-> Entry(h, sess), n |-> info.n, calls |-> info.calls,
              reason |-> info.reason, arg |-> info.arg]
  /\ UNCHANGED <<disk, aux>>

\* lines 626-645: the handler reads the session entry into its locals
NarrateStart(r, text) ==
  /\ reqs[r].pc = "idle"
  /\ reqs' = [reqs EXCEPT ![r] = [pc |-> "sys", gameState |-> session.gameState,
                                  isFirstTurn |-> session.isFirstTurn, text |-> text,
                                  queue |-> <<>>, i |-> 0, pending |-> 0, pre |-> Stored]]
  /\ UNCHANGED <<heap, session, applied, last, call, disk, aux>>

\* lines 650-676: after awaiting detectSystemCommand; system commands and restart return here
NarrateSystem(r) ==
  /\ reqs[r].pc = "sys"
  /\ UNCHANGED call
  /\ LET t     == reqs[r].text
         fresh == initializeGame(heap)
     IN IF SystemCommand(t) = "same"
          THEN Finish(r, "system", session, heap, applied, Info(0, 0, ""))
        ELSE IF SystemCommand(t) = "new"
          THEN Finish(r, "system", [gameState |-> fresh.ref, isFirstTurn |-> TRUE], fresh.heap, 0, Info(0, 0, ""))
        ELSE IF HasRestartKeyword(t)
          THEN Finish(r, "restart", [gameState |-> fresh.ref, isFirstTurn |-> TRUE], fresh.heap, 0, Info(0, 0, ""))
        ELSE /\ reqs' = [reqs EXCEPT ![r].pc = "parse"]
             /\ UNCHANGED <<heap, session, applied, last, disk, aux>>

\* ghost: the prevState object as it was before and as it is after an engine call
Called(h, g, threw, bo, raw) ==
  [made |-> TRUE, before |-> h[g], after |-> bo.heap[g], threw |-> threw,
   raw |-> raw, out |-> bo.heap[bo.ref]]

\* the raw text index.js builds of a queued action: [action, target].join(' ')
RawOf(a) == <<a.action>> \o a.target

\* lines 693-806, up to the first suspension inside the queue loop.  parse is what
\* normalizeUserIntent resolved to; throws says whether the engine call raises.
NarrateParsed(r, parse, throws) ==
  /\ reqs[r].pc = "parse"
  /\ heap[reqs[r].gameState].turn_counter < MaxTurns
  /\ LET me == reqs[r]
         g  == me.gameState
     IN IF me.isFirstTurn
          THEN \* lines 714-733: the flag is stored before the engine is tried
            \E bo \in {buildOutput(heap, g, [raw |-> me.text, WORLD_PROMPT |-> me.text], throws)} :
               /\ call' = Called(heap, g, throws, bo, me.text)
               /\ IF bo.threw
                    THEN Finish(r, "engine_failed", [gameState |-> g, isFirstTurn |-> FALSE],
                                heap, applied, Info(1, 1, ""))
                    ELSE Finish(r, "accepted", [gameState |-> bo.ref, isFirstTurn |-> FALSE],
                                bo.heap, applied + 1, Info(1, 1, ""))
        ELSE IF parse.success /\ IsNumber(parse.confidence) /\ parse.confidence[1] < 5
          THEN /\ Finish(r, "clarify", session, heap, applied, Info(0, 0, ""))
               /\ UNCHANGED call
        ELSE IF parse.success /\ IsNumber(parse.confidence) /\ parse.confidence[1] >= 5
          THEN \E v \in {validateAndQueueIntent(heap[g], parse.intent)} :
                 IF ~v.valid
                   THEN /\ Finish(r, "rejected", session, heap, applied, Info(Len(v.queue), 0, v.reason))
                        /\ UNCHANGED call
                   ELSE \E bo \in {buildOutput(heap, g, [raw |-> RawOf(v.queue[1])], throws)} :
                          /\ call' = Called(heap, g, throws, bo, RawOf(v.queue[1]))
                          /\ IF bo.threw
                               THEN Finish(r, "engine_failed", session, heap, applied,
                                           Info(Len(v.queue), 1, ""))
                               ELSE /\ reqs' = [reqs EXCEPT ![r].pc = "loop", ![r].queue = v.queue,
                                                            ![r].i = 1, ![r].pending = bo.ref]
                                    /\ heap' = bo.heap
                                    /\ UNCHANGED <<session, applied, last, disk, aux>>
        ELSE \* lines 789-806: the legacy parser path, no suspension
            \E bo \in {buildOutput(heap, g, [raw |-> me.text], throws)} :
               /\ call' = Called(heap, g, throws, bo, me.text)
               /\ IF bo.threw
                    THEN Finish(r, "engine_failed", session, heap, applied, Info(1, 1, ""))
                    ELSE Finish(r, "accepted", [gameState |-> bo.ref, isFirstTurn |-> me.isFirstTurn],
                                bo.heap, applied + 1,
                                [Info(1, 1, "") EXCEPT !.arg = parse.intent.primary])

\* lines 779-785: the awaited engine result arrives; it is stored, then the loop
\* goes on to the next queued action or leaves
NarrateLoop(r, throws) ==
  /\ reqs[r].pc = "loop"
  /\ LET me     == reqs[r]
         stored == [gameState |-> me.pending, isFirstTurn |-> me.isFirstTurn]
     IN IF me.i < Len(me.queue)
          THEN /\ heap[me.pending].turn_counter < MaxTurns
               /\ \E bo \in {buildOutput(heap, me.pending, [raw |-> RawOf(me.queue[me.i + 1])], throws)} :
                     /\ call' = Called(heap, me.pending, throws, bo, RawOf(me.queue[me.i + 1]))
                     /\ IF bo.threw
                          THEN Finish(r, "engine_failed", stored, heap, applied + 1,
                                      Info(Len(me.queue), me.i + 1, ""))
                          ELSE /\ session' = stored
                               /\ reqs' = [reqs EXCEPT ![r].gameState = me.pending, ![r].i = me.i + 1,
                                                       ![r].pending = bo.ref]
                               /\ heap' = Collect(bo.heap, stored, reqs')
                               /\ applied' = applied + 1
                               /\ UNCHANGED <<last, disk, aux>>
          ELSE /\ ~throws
               /\ Finish(r, "accepted", stored, heap, applied + 1,
                         Info(Len(me.queue), me.i, ""))
               /\ UNCHANGED call

----------------------------------------------------------------------------
(* index.js: the quest endpoints.  They are synchronous and change the       *)
(* session's game state object in place.                                     *)

Done(op, result, h, arg) ==
  /\ heap' = h
  /\ last' = [op |-> op, result |-> result, pre |-> Stored, post |-> Entry(h, session),
              n |-> 0, calls |-> 0, reason |-> "", arg |-> arg]
  /\ UNCHANGED <<session, reqs, aux, applied, call, disk>>

Gold(state) ==
  LET g == FindIndex(state.inventory, LAMBDA it : it.type = "gold")
  IN IF g = 0 THEN 0 ELSE state.inventory[g].quantity

\* POST /quest/accept
QuestAccept(questId) ==
  LET g  == session.gameState
      st == heap[g]
      v  == validateQuestAcceptance(st, questId)
      s  == FindIndex(st.seeded, LAMBDA q : q.id = questId)
      quest == [st.seeded[s] EXCEPT !.status = "accepted", !.current_step = 0]
  IN /\ g \in DOMAIN heap
     /\ Done("quest/accept", v,
          IF v = "ok" THEN [heap EXCEPT ![g].active = Append(@, quest)] ELSE heap,
          [NoAction EXCEPT !.questId = questId])

\* POST /quest/progress with no step in the body
\* Math.min on step counts: NaN when an argument is NaN or undefined
MathMin(a, b) == IF {a, b} \cap {NaNStep, UndefinedSteps} # {} THEN NaNStep ELSE Min(a, b)
\* quest.current_step + 1
PlusOne(a) == IF a \in {NaNStep, UndefinedSteps} THEN NaNStep ELSE a + 1

QuestProgress(questId) ==
  LET g  == session.gameState
      st == heap[g]
      a  == FindIndex(st.active, LAMBDA q : q.id = questId)
      step == MathMin(PlusOne(st.active[a].current_step), st.active[a].total_steps)
  IN /\ g \in DOMAIN heap
     /\ Done("quest/progress", IF a = 0 THEN "QUEST_NOT_FOUND" ELSE "ok",
          IF a = 0 THEN heap
          ELSE [heap EXCEPT ![g].active[a].current_step = step,
                            ![g].active[a].status =
                               IF step = st.active[a].total_steps THEN "ready_to_complete"
                                                                  ELSE "in_progress"],
          [NoAction EXCEPT !.questId = questId])

\* POST /quest/complete
\* POST /quest/progress with a step in its body
QuestProgressTo(questId, to) ==
  LET g  == session.gameState
      st == heap[g]
      a  == FindIndex(st.active, LAMBDA q : q.id = questId)
      step == MathMin(to, st.active[a].total_steps)
  IN /\ g \in DOMAIN heap
     /\ Done("quest/progress", IF a = 0 THEN "QUEST_NOT_FOUND" ELSE "ok",
          IF a = 0 THEN heap
          ELSE [heap EXCEPT ![g].active[a].current_step = step,
                            ![g].active[a].status =
                               IF step = st.active[a].total_steps THEN "ready_to_complete"
                                                                  ELSE "in_progress"],
          [NoAction EXCEPT !.questId = questId])

QuestComplete(questId) ==
  LET g  == session.gameState
      st == heap[g]
      v  == validateQuestCompletion(st, questId)
      a  == FindIndex(st.active, LAMBDA q : q.id = questId)
  IN /\ v = "ok" => /\ Len(st.completed) < MaxCompleted
                    /\ Gold(st) + st.active[a].reward_gold <= MaxGold
     /\ Done("quest/complete", v,
             IF v = "ok"
               THEN [heap EXCEPT ![g].inventory = applyQuestReward(@, st.active[a]),
                                 ![g].active    = Splice(@, a),
                                 ![g].completed = Append(@, [st.active[a] EXCEPT !.status = "completed"])]
               ELSE heap,
             [NoAction EXCEPT !.questId = questId])

\* a quest action applied to the game state by ActionProcessor.applyPlayerActions
ApplyQuestAction(act) ==
  LET g  == session.gameState
      st == heap[g]
      v  == validateQuestAction(act, st)
  IN /\ (act.action = "complete_quest" /\ v.error = "ok") => Len(st.completed) < MaxCompleted
     /\ Done(act.action, v.error, [heap EXCEPT ![g] = applyPlayerActions(st, act).state], act)

----------------------------------------------------------------------------
(* Settlements: NPCs and seeded quests.  Engine.enterL2FromL1 stores what    *)
(* QuestSystem.generateSettlementQuests returns; the quest records follow    *)
(* the Quest data model.                                                     *)

Quest(id, sid, giver, gold, steps) ==
  [id |-> id, settlement |-> sid, giver_npc_id |-> <<"npc", sid, giver>>, reward_gold |-> gold,
   total_steps |-> steps, current_step |-> 0, status |-> "available"]

CapQuests == 12        \* quests seeded in the large settlement

\* the quests seeded for a settlement: two in the hamlet "s1", CapQuests in the city "s2"
\* _generateQuestTemplate and Engine.generateSettlementQuests: the quest object
\* has steps and current_step, and no total_steps
TemplateQuest(id, sid, giver) == Quest(id, sid, giver, 5, UndefinedSteps)

generateSettlementQuests(sid) ==
  IF sid = "s1"
    THEN << Quest(21, "s1", "0", 5, 1), Quest(22, "s1", "1", 7, 2) >>
    ELSE [k \in 1..CapQuests |->
            Quest(k, sid, IF k = 10 THEN "0" ELSE IF k = 11 THEN "1" ELSE IF k = 12 THEN "3" ELSE "2",
                  5, 1)]

\* the NPCs of a settlement, with the quest_giver_rank of each
SettlementNPCs(sid, ranks) ==
  [i \in 1..Len(ranks) |->
     [id |-> <<"npc", sid, CASE i = 1 -> "0" [] i = 2 -> "1" [] i = 3 -> "2" [] OTHER -> "3">>,
      settlement |-> sid, quest_giver_rank |-> ranks[i]]]

HasSettlement(state, sid) == \E i \in 1..Len(state.npcs) : state.npcs[i].settlement = sid

\* enterL2FromL1 into a settlement not yet generated: its NPCs and quests are stored
enterL2FromL1(state, sid, ranks) ==
  IF HasSettlement(state, sid) THEN state
  ELSE [state EXCEPT !.npcs   = @ \o SettlementNPCs(sid, ranks),
                     !.seeded = @ \o generateSettlementQuests(sid)]

EnterSettlement(sid, ranks) ==
  /\ ~HasSettlement(heap[session.gameState], sid)
  /\ Done("enter", "ok",
          [heap EXCEPT ![session.gameState] = enterL2FromL1(@, sid, ranks)], NoAction)

\* WorldGen.generateWorldFromDescription(state, description) on the game state
DescribeWorld(desc) ==
  LET g == session.gameState
  IN /\ g \in DOMAIN heap
     /\ Done("describe", "ok", [heap EXCEPT ![g] = generateWorldFromDescription(@, desc)],
             [NoAction EXCEPT !.action = "describe", !.target = desc])

\* one WorldGen.worldGenStep on the game state, with the given movement
WorldStep(dir) ==
  LET g   == session.gameState
      act == [NoAction EXCEPT !.action = "move", !.dir = dir]
  IN /\ g \in DOMAIN heap
     /\ Done("worldgen", "ok", [heap EXCEPT ![g] = worldGenStep(@, act)], act)

----------------------------------------------------------------------------
(* index.js: save files.  A save name is a sequence of characters; the session's
   save directory maps file names to file contents. *)

SaveChars ==
  { "a", "b", "c", "d", "e", "f", "g", "h", "i", "j", "k", "l", "m", "n", "o", "p", "q",
    "r", "s", "t", "u", "v", "w", "x", "y", "z",
    "0", "1", "2", "3", "4", "5", "6", "7", "8", "9", " " }
IsSaveChar(c) == c \in SaveChars

RECURSIVE TrimLeft(_)
TrimLeft(t) == IF t # <<>> /\ Head(t) = " " THEN TrimLeft(Tail(t)) ELSE t
RECURSIVE TrimRight(_)
TrimRight(t) == IF t # <<>> /\ t[Len(t)] = " " THEN TrimRight(SubSeq(t, 1, Len(t) - 1)) ELSE t

\* String.prototype.trim
Trim(t) == TrimRight(TrimLeft(t))

\* saveName.replace(/[^a-zA-Z0-9\s]/g, '').trim()
cleanName(name) == Trim(SelectSeq(name, IsSaveChar))

\* getSaveFilePath: the file of a save name, within the session's directory
getSaveFilePath(name) == cleanName(name) \o <<".json">>

\* getSaveCount: the .json files of the directory
getSaveCount(dir) == Cardinality(DOMAIN dir)

\* saveExists
saveExists(dir, name) == getSaveFilePath(name) \in DOMAIN dir

\* the decimal digits of a counter
DigitChars == <<"0", "1", "2", "3", "4", "5", "6", "7", "8", "9">>
RECURSIVE Decimal(_)
Decimal(n) == IF n < 10 THEN <<DigitChars[n + 1]>>
              ELSE Decimal(n \div 10) \o <<DigitChars[(n % 10) + 1]>>

\* findUniqueSaveName: the candidate `${cleanBase} (${counter})`
Candidate(cleanBase, counter) == cleanBase \o <<" ", "(">> \o Decimal(counter) \o <<")">>

\* JSON.stringify / JSON.parse of plain data
JSONstringify(v) == [json |-> v]
JSONparse(t) == t.json

SaveSlots == {1, 2}
IdleSave == [pc |-> "idle", name |-> <<>>, clean |-> <<>>, candidate |-> <<>>, counter |-> 0,
             final |-> <<>>, existed |-> FALSE, state |-> initState]

NoIo == [op |-> "none", ok |-> FALSE, error |-> "", name |-> <<>>, reported |-> <<>>,
         file |-> <<>>, state |-> initState, existed |-> FALSE, wrote |-> FALSE,
         kept |-> TRUE, loaded |-> initState, afterSave |-> FALSE]

\* performSave returns: its locals die, the ghost records the result
SaveReturns(s, result) ==
  /\ saving' = [saving EXCEPT ![s] = IdleSave]
  /\ io' = result

SaveFailure(s, error) ==
  [NoIo EXCEPT !.op = "save", !.error = error, !.name = saving[s].name, !.state = saving[s].state]

\* lines 99-121, called from detectSystemCommand (514) with the request's game state:
\* the checks of the name, then getSaveCount is awaited
SaveStart(s, name) ==
  /\ saving[s].pc = "idle"
  /\ session.gameState \in DOMAIN heap
  /\ IF Trim(name) = <<>> \/ cleanName(name) = <<>> \/ Len(cleanName(name)) > 30
       THEN /\ SaveReturns(s, [NoIo EXCEPT !.op = "save", !.error = "INVALID_SAVE_NAME",
                                           !.name = name, !.state = heap[session.gameState]])
            /\ UNCHANGED files
       ELSE /\ saving' = [saving EXCEPT ![s] = [IdleSave EXCEPT !.pc = "count", !.name = name,
                                                               !.clean = cleanName(name),
                                                               !.state = heap[session.gameState]]]
            /\ UNCHANGED <<files, io>>
  /\ UNCHANGED <<heap, session, reqs, aux, applied, last, call>>

\* lines 122-127: the count arrives; at the limit the save fails, else the directory
\* is ensured and saveExists is awaited
SaveCounted(s) ==
  /\ saving[s].pc = "count"
  /\ IF getSaveCount(files) >= MaxSaves
       THEN SaveReturns(s, SaveFailure(s, "SAVE_LIMIT_EXCEEDED"))
       ELSE /\ saving' = [saving EXCEPT ![s].pc = "exists"]
            /\ UNCHANGED io
  /\ UNCHANGED <<heap, session, reqs, aux, applied, last, call, files>>

\* lines 129-132: the answer of saveExists arrives
SaveExists(s) ==
  /\ saving[s].pc = "exists"
  /\ saving' = [saving EXCEPT ![s] =
       IF saveExists(files, saving[s].clean)
         THEN [@ EXCEPT !.pc = "unique", !.candidate = saving[s].clean, !.counter = 1,
                        !.existed = TRUE]
         ELSE [@ EXCEPT !.pc = "write", !.final = saving[s].clean]]
  /\ UNCHANGED <<heap, session, reqs, aux, applied, last, call, files, io>>

\* findUniqueSaveName, one turn of its loop: the answer of fs.access arrives
SaveProbe(s) ==
  /\ saving[s].pc = "unique"
  /\ IF getSaveFilePath(saving[s].candidate) \in DOMAIN files
       THEN IF saving[s].counter + 1 > 100
              THEN SaveReturns(s, SaveFailure(s, "SAVE_FAILED"))
              ELSE /\ saving' = [saving EXCEPT
                        ![s].candidate = Candidate(saving[s].clean, saving[s].counter),
                        ![s].counter = @ + 1]
                   /\ UNCHANGED io
       ELSE /\ saving' = [saving EXCEPT ![s].pc = "write", ![s].final = saving[s].candidate]
            /\ UNCHANGED io
  /\ UNCHANGED <<heap, session, reqs, aux, applied, last, call, files>>

\* lines 134-153: the file is written and the success result returned
SaveWrite(s) ==
  /\ saving[s].pc = "write"
  /\ files' = [f \in (DOMAIN files) \cup {getSaveFilePath(saving[s].final)} |->
                 IF f = getSaveFilePath(saving[s].final)
                   THEN JSONstringify([gameState |-> saving[s].state, saveName |-> saving[s].final])
                   ELSE files[f]]
  /\ SaveReturns(s, [NoIo EXCEPT !.op = "save", !.ok = TRUE, !.name = saving[s].name,
                                 !.reported = saving[s].final,
                                 !.file = getSaveFilePath(saving[s].final),
                                 !.state = saving[s].state, !.existed = saving[s].existed,
                                 !.wrote = TRUE,
                                 !.kept = (getSaveFilePath(saving[s].final) \notin DOMAIN files)])
  /\ UNCHANGED <<heap, session, reqs, aux, applied, last, call>>

\* performLoad (163-201) and the store of its result by detectSystemCommand (524-541)
LoadSave(name) ==
  /\ Trim(name) # <<>>
  /\ io' = [NoIo EXCEPT !.op = "load", !.name = name,
                        !.ok = (getSaveFilePath(name) \in DOMAIN files),
                        !.error = IF getSaveFilePath(name) \in DOMAIN files THEN "" ELSE "SAVE_NOT_FOUND",
                        !.loaded = IF getSaveFilePath(name) \in DOMAIN files
                                     THEN JSONparse(files[getSaveFilePath(name)]).gameState
                                     ELSE initState,
                        !.state = io.state,
                        !.afterSave = (io.op = "save" /\ io.ok /\ io.name = name)]
  /\ IF getSaveFilePath(name) \in DOMAIN files
       THEN /\ session' = [gameState |-> FreshRef(heap), isFirstTurn |-> FALSE]
            /\ heap' = Collect([r \in (DOMAIN heap) \cup {FreshRef(heap)} |->
                                  IF r = FreshRef(heap)
                                    THEN JSONparse(files[getSaveFilePath(name)]).gameState
                                    ELSE heap[r]],
                               session', reqs)
       ELSE UNCHANGED <<heap, session>>
  /\ UNCHANGED <<reqs, aux, applied, last, call, files, saving>>

\* one /narrate turn "look" between the saves, with no other request in flight
SaveTurn ==
  /\ \A r \in DOMAIN reqs : reqs[r].pc = "idle"
  /\ session.gameState \in DOMAIN heap
  /\ heap[session.gameState].turn_counter < SaveTurns
  /\ \E bo \in {buildOutput(heap, session.gameState, [raw |-> <<"look">>], FALSE)} :
        /\ session' = [gameState |-> bo.ref, isFirstTurn |-> FALSE]
        /\ heap' = Collect(bo.heap, session', reqs)
  /\ UNCHANGED <<reqs, aux, applied, last, call, disk>>

----------------------------------------------------------------------------
(* ActionProcessor.js (QuestSystem.js): the quest constraint engine.  A value   *)
(* of the RNG is parseInt(8 hex digits) / 0xFFFFFFFF, a fraction k / 0xFFFFFFFF  *)
(* with 0 <= k <= 0xFFFFFFFF; the model draws k / RngSteps with 0 <= k <=        *)
(* RngSteps, both ends included as in the code.                                 *)

Rolls == 0..RngSteps

\* rng.next(min, max) = min + floor(random * (max - min + 1))
rngNext(k, min, max) == min + ((k * (max - min + 1)) \div RngSteps)

\* rng.choice(array): the index (from 1) of the element taken; Len + 1 is undefined
rngChoice(k, len) == ((k * len) \div RngSteps) + 1

Tiers == <<"trivial", "easy", "moderate", "hard", "deadly">>
TierIndex(d) == CHOOSE i \in DOMAIN Tiers : Tiers[i] = d

\* QUEST_CONFIG.DIFFICULTY_TIERS: gold range, and weight in thousandths
DIFFICULTY_TIERS ==
  << [minGold |-> 5,   maxGold |-> 25,   weight |-> 150],
     [minGold |-> 25,  maxGold |-> 75,   weight |-> 300],
     [minGold |-> 75,  maxGold |-> 250,  weight |-> 350],
     [minGold |-> 250, maxGold |-> 750,  weight |-> 150],
     [minGold |-> 750, maxGold |-> 2000, weight |-> 50] >>

\* sizeModifier of _rollDifficulty, in hundredths; other types take the town row
sizeModifier(type) ==
  CASE type = "hamlet"  -> <<30, 40, 20, 10, 0>>
    [] type = "village" -> <<20, 40, 30, 10, 0>>
    [] type = "city"    -> <<5, 20, 40, 25, 10>>
    [] OTHER            -> <<10, 30, 40, 15, 5>>

\* modifier[tier] || 1.0 : a modifier of 0.0 is falsy and becomes 1.0
ModifierOrOne(m) == IF m = 0 THEN 100 ELSE m

adjustedWeights(type) ==
  [i \in DOMAIN Tiers |-> DIFFICULTY_TIERS[i].weight * ModifierOrOne(sizeModifier(type)[i])]

RECURSIVE SumTo(_, _)
SumTo(w, n) == IF n = 0 THEN 0 ELSE w[n] + SumTo(w, n - 1)

\* rng.weightedChoice: the first item at which random * total, less the weights
\* so far, is <= 0; the last item otherwise
weightedChoice(k, w) ==
  IF \E i \in DOMAIN w : k * SumTo(w, Len(w)) <= RngSteps * SumTo(w, i)
    THEN CHOOSE i \in DOMAIN w :
           /\ k * SumTo(w, Len(w)) <= RngSteps * SumTo(w, i)
           /\ \A j \in 1..(i - 1) : k * SumTo(w, Len(w)) > RngSteps * SumTo(w, j)
    ELSE Len(w)

_rollDifficulty(type, k) == Tiers[weightedChoice(k, adjustedWeights(type))]

_rollRewardGold(difficulty, k) ==
  rngNext(k, DIFFICULTY_TIERS[TierIndex(difficulty)].minGold,
             DIFFICULTY_TIERS[TierIndex(difficulty)].maxGold)

\* QUEST_CONFIG.FORBIDDEN_KEYWORDS
FORBIDDEN_KEYWORDS(difficulty) ==
  CASE difficulty = "hard"   -> {"dragon", "god"}
    [] difficulty = "deadly" -> {"god"}
    [] OTHER                 -> {"dragon", "warlord", "ancient", "demon", "god"}

\* rollQuestConstraints: of the constraints, those the narrative and the reward
\* depend on.  The id, item count, complexity, enemies and travel distance are
\* drawn from further RNG values of their own.
rollQuestConstraints(type, kd, kg) ==
  [ settlement_type |-> type,
    difficulty      |-> _rollDifficulty(type, kd),
    reward_gold     |-> _rollRewardGold(_rollDifficulty(type, kd), kg) ]

----------------------------------------------------------------------------
(* ActionProcessor.js (QuestSystem.js): the narrative of a quest.  A text is   *)
(* its sequence of words; a word written with a capital is lower-cased by     *)
(* ToLower.                                                                  *)

ToLowerWord(w) == CASE w = "Dragon" -> "dragon" [] w = "God" -> "god" [] OTHER -> w
ToLower(text) == [i \in DOMAIN text |-> ToLowerWord(text[i])]

RECURSIVE Join(_)
\* array.join(' ') of texts
Join(texts) == IF texts = << >> THEN << >> ELSE Head(texts) \o Join(Tail(texts))

\* a narrative whose every text field is t and that has n steps and one choice
Narrative(t, n) ==
  [ protagonist |-> t, antagonist |-> t, narrative |-> t, objective_description |-> t,
    reward_description |-> t, narrative_hooks |-> <<t>>, complications |-> t,
    step_narratives |-> [i \in 1..n |-> [step_id |-> i, narrative |-> t, objective |-> t]],
    choice_consequences |-> << [choice_id |-> 1, consequence |-> t] >>,
    complete |-> TRUE ]

\* QuestValidator._extractAllText: protagonist and antagonist are not among the fields
_extractAllText(response) ==
  ToLower(Join(<<response.narrative, response.objective_description,
                 response.reward_description, response.complications>>
               \o response.narrative_hooks
               \o [i \in DOMAIN response.step_narratives |->
                      response.step_narratives[i].narrative \o response.step_narratives[i].objective]
               \o [i \in DOMAIN response.choice_consequences |->
                      response.choice_consequences[i].consequence]))

\* every text the quest takes from the narrative (_integrateNarrative)
QuestText(quest) ==
  ToLower(Join(<<quest.protagonist, quest.antagonist, quest.narrative, quest.objective_description,
                 quest.reward_description, quest.complications>>
               \o quest.narrative_hooks
               \o [i \in DOMAIN quest.step_narratives |->
                      quest.step_narratives[i].narrative \o quest.step_narratives[i].objective]
               \o [i \in DOMAIN quest.choice_consequences |->
                      quest.choice_consequences[i].consequence]))

_checkForbiddenKeywords(text, forbiddenKeywords) ==
  { kw \in forbiddenKeywords : Includes(Chars(text), Spell(kw)) }

\* _checkRequiredFields: no field missing or empty
_checkRequiredFields(response) ==
  /\ response.protagonist # << >> /\ response.antagonist # << >>
  /\ response.narrative # << >> /\ response.objective_description # << >>
  /\ response.reward_description # << >> /\ response.complications # << >>
  /\ response.narrative_hooks # << >> /\ response.step_narratives # << >>
  /\ response.choice_consequences # << >>

\* validateNarrativeResponse(questTemplate, deepSeekResponse).valid.  The texts
\* explored name no gold amount, enemy type or scope indicator, so the reward,
\* enemy and scope checks find nothing.
validateNarrativeResponse(template, response) ==
  /\ response.complete
  /\ _checkForbiddenKeywords(_extractAllText(response), FORBIDDEN_KEYWORDS(template.difficulty)) = {}
  /\ _checkRequiredFields(response)
  /\ Len(response.step_narratives) = template.steps
  /\ \A i \in DOMAIN response.step_narratives : response.step_narratives[i].step_id \in 1..template.steps

\* FallbackQuestSystem: the one template of a difficulty, its steps filled in
FallbackTemplate(template) == Narrative(<<"template", template.difficulty>>, template.steps)

\* generateFallbackQuest: rng.choice over the one-element template list; an index
\* past the list gives undefined and JSON.parse(undefined) throws
generateFallbackQuest(template, kf) ==
  IF rngChoice(kf, 1) = 1 THEN [threw |-> FALSE, narrative |-> FallbackTemplate(template)]
                          ELSE [threw |-> TRUE, narrative |-> Narrative(<< >>, 0)]

\* _getQuestNarrative(template): llm is what the DeepSeek call came to
_getQuestNarrative(template, llm, kf) ==
  IF llm.kind = "reply" /\ validateNarrativeResponse(template, llm.reply)
    THEN [threw |-> FALSE, narrative |-> llm.reply, used_fallback |-> FALSE]
    ELSE [threw |-> generateFallbackQuest(template, kf).threw,
          narrative |-> generateFallbackQuest(template, kf).narrative, used_fallback |-> TRUE]

\* generateCompleteQuest after the narrative arrived: integrate, or the catch
generateCompleteQuest(template, llm, kf) ==
  LET nr == _getQuestNarrative(template, llm, kf)
  IN IF nr.threw
       THEN [success |-> FALSE, quest |-> Narrative(<< >>, 0), is_fallback |-> FALSE, used_fallback |-> FALSE]
       ELSE [success |-> TRUE, quest |-> nr.narrative, is_fallback |-> nr.used_fallback,
             used_fallback |-> nr.used_fallback]

NoTemplate == [settlement_type |-> "", difficulty |-> "", reward_gold |-> 0, steps |-> 0]
NoLlm == [kind |-> "none", reply |-> Narrative(<< >>, 0)]
NoQuest == [pc |-> "idle", op |-> "none", template |-> NoTemplate, llm |-> NoLlm,
            result |-> generateCompleteQuest(NoTemplate, NoLlm, 0)]

\* rollQuestConstraints(settlementContext) called on the constraint engine
RollQuest(type, kd, kg) ==
  /\ rolled.pc = "idle"
  /\ rolled' = [NoQuest EXCEPT !.op = "roll",
                               !.template = [settlement_type |-> rollQuestConstraints(type, kd, kg).settlement_type,
                                             difficulty |-> rollQuestConstraints(type, kd, kg).difficulty,
                                             reward_gold |-> rollQuestConstraints(type, kd, kg).reward_gold,
                                             steps |-> 0]]
  /\ UNCHANGED <<heap, session, reqs, applied, last, call, disk, plan, parser, npc, layers, structure, retry>>

\* generateCompleteQuest up to `await this._getQuestNarrative`: the template is rolled
GenerateStart(type, kd, kg, steps) ==
  /\ rolled.pc = "idle"
  /\ rolled' = [NoQuest EXCEPT !.pc = "narrative", !.op = "roll",
                               !.template = [settlement_type |-> rollQuestConstraints(type, kd, kg).settlement_type,
                                             difficulty |-> rollQuestConstraints(type, kd, kg).difficulty,
                                             reward_gold |-> rollQuestConstraints(type, kd, kg).reward_gold,
                                             steps |-> steps]]
  /\ UNCHANGED <<heap, session, reqs, applied, last, call, disk, plan, parser, npc, layers, structure, retry>>

\* the narrative arrives: validation, fallback, integration, the result returned
GenerateNarrative(llm, kf) ==
  /\ rolled.pc = "narrative"
  /\ rolled' = [rolled EXCEPT !.pc = "idle", !.op = "generate", !.llm = llm,
                              !.result = generateCompleteQuest(rolled.template, llm, kf)]
  /\ UNCHANGED <<heap, session, reqs, applied, last, call, disk, plan, parser, npc, layers, structure, retry>>

----------------------------------------------------------------------------
(* QuestSystem._generateQuestStructure and _generateStepChoices. Steps and the   *)
(* steps choices lead to are held by their numbers: step_3 is 3. The failure     *)
(* triggers of a step name no other step and are left out.                       *)

\* QUEST_CONFIG.COMPLEXITY_TYPES[complexity].steps: a range, or one number
ComplexitySteps(complexity) ==
  CASE complexity = "single"  -> <<1, 1>>
    [] complexity = "short"   -> <<2, 3>>
    [] complexity = "medium"  -> <<4, 6>>
    [] complexity = "dynamic" -> <<3, 5>>

\* _generateQuestStructure, the step count drawn
stepCountOf(complexity, k) ==
  IF complexity = "single" THEN 1
  ELSE rngNext(k, ComplexitySteps(complexity)[1], ComplexitySteps(complexity)[2])

\* _generateStepChoices(currentStep, totalSteps): currentStep is the loop index of
\* the step, one below its number
_generateStepChoices(currentStep, totalSteps, kn, ks) ==
  [c \in 1..rngNext(kn, 2, 3) |->
     [id |-> <<currentStep + 1, c>>,
      leads_to_step |-> rngNext(ks[c], currentStep + 1, totalSteps)]]

NoStructure == [pc |-> "idle", complexity |-> "", total_steps |-> 0, i |-> 0, steps |-> << >>]
StructureFrame ==
  UNCHANGED <<heap, session, reqs, applied, last, call, disk, rolled, plan, parser, npc, layers, retry>>

\* _generateQuestStructure up to its loop
StructureBegin(complexity, k) ==
  /\ structure.pc \in {"idle", "done"}
  /\ structure' = [NoStructure EXCEPT !.pc = "steps", !.complexity = complexity,
                                      !.total_steps = stepCountOf(complexity, k)]
  /\ StructureFrame

\* one pass of the loop: the step is pushed, with choices unless it is the last
StructureStep(kn, ks) ==
  /\ structure.pc = "steps"
  /\ structure.i < structure.total_steps
  /\ structure' = [structure EXCEPT
       !.steps = Append(@, [id |-> structure.i + 1,
                            choices |-> IF structure.i < structure.total_steps - 1
                                          THEN _generateStepChoices(structure.i, structure.total_steps, kn, ks)
                                          ELSE << >>]),
       !.i = @ + 1,
       !.pc = IF structure.i + 1 < structure.total_steps THEN "steps" ELSE "done"]
  /\ StructureFrame

----------------------------------------------------------------------------
(* WorldGen.js, planSitesForMacro: the placement of a macro cell's clusters.   *)
(* Every rndInt is a hash of the seed and a label, so the cell tried and the  *)
(* directions of growth are arbitrary values of their ranges.                *)

\* DEFAULTS.DENSITY.spacing and DEFAULTS.FOOTPRINT
spacing(tier) ==
  CASE tier = "outpost" -> 1 [] tier = "hamlet" -> 2 [] tier = "town" -> 3
    [] tier = "city" -> 4 [] tier = "metropolis" -> 6
FOOTPRINT(tier) ==
  CASE tier = "city" -> 3 [] tier = "metropolis" -> 7 [] OTHER -> 1

Center(cl) == cl.cells[1]
Occupied(clusters) == UNION { Range(clusters[i].cells) : i \in DOMAIN clusters }
inBounds(c) == c[1] >= 0 /\ c[2] >= 0 /\ c[1] < L1W /\ c[2] < L1H

\* okSpacing(lx, ly, tier): the new tier's spacing against every centre placed
okSpacing(clusters, c, tier) ==
  \A i \in DOMAIN clusters :
    Cheb(Center(clusters[i])[1], Center(clusters[i])[2], c[1], c[2]) >= spacing(tier)

\* a try of tryPlaceCluster passes its two tests
TryPasses(clusters, c, tier) == c \notin Occupied(clusters) /\ okSpacing(clusters, c, tier)

RECURSIVE GrowCells(_, _, _)
\* the footprint loop: each growth (base index, direction) that lands on a free
\* cell in bounds is pushed; the others are attempts that change nothing
GrowCells(cells, occ, growth) ==
  IF growth = << >> THEN cells
  ELSE LET b == growth[1][1]
           d == growth[1][2]
           n == <<cells[b][1] + d[1], cells[b][2] + d[2]>>
       IN IF b \in DOMAIN cells /\ inBounds(n) /\ n \notin occ \cup Range(cells)
            THEN GrowCells(Append(cells, n), occ, Tail(growth))
            ELSE GrowCells(cells, occ, Tail(growth))

\* tryPlaceCluster(tier) succeeding at cell c
PlaceAt(clusters, tier, c, growth) ==
  Append(clusters,
         Cluster(tier, Len(clusters) + 1,
                 GrowCells(<<c>>, Occupied(clusters), SubSeq(growth, 1, FOOTPRINT(tier) - 1))))

NoPlan == [phase |-> "idle", target |-> 0, clusters |-> << >>, placed |-> 0, flip |-> TRUE,
           warn_shortfall |-> FALSE]

\* the loops end: placed reached the target, or the budgets ran out
PlanAfter(p) ==
  IF p.placed >= p.target THEN [p EXCEPT !.phase = "done", !.warn_shortfall = FALSE] ELSE p

PlanFrame == UNCHANGED <<heap, session, reqs, applied, last, call, disk, rolled, parser, npc, layers, structure, retry>>

\* a macro without a cached plan: the target is drawn; no metropolis (cap 0)
PlanBegin(target) ==
  /\ plan.phase \in {"idle", "done"}
  /\ plan' = [NoPlan EXCEPT !.phase = "city", !.target = target]
  /\ PlanFrame

\* the one city (cap 1): on an empty macro every try passes
PlanCity(c, growth) ==
  /\ plan.phase = "city"
  /\ TryPasses(plan.clusters, c, "city")
  /\ plan' = PlanAfter([plan EXCEPT !.phase = "town", !.placed = @ + 1,
                                    !.clusters = PlaceAt(@, "city", c, growth)])
  /\ PlanFrame

\* the town loop places a town
PlanTown(c) ==
  /\ plan.phase = "town"
  /\ TryPasses(plan.clusters, c, "town")
  /\ plan' = PlanAfter([plan EXCEPT !.placed = @ + 1, !.clusters = PlaceAt(@, "town", c, << >>)])
  /\ PlanFrame

\* TOWN_TRY_BUDGET calls of tryPlaceCluster('town') fail, each of its tries on a
\* cell that is occupied or too close
PlanTownBudget ==
  /\ plan.phase = "town"
  /\ plan' = [plan EXCEPT !.phase = "minor"]
  /\ PlanFrame

\* the minor loop places a hamlet or an outpost, in turn
PlanMinor(c) ==
  /\ plan.phase = "minor"
  /\ LET tier == IF plan.flip THEN "hamlet" ELSE "outpost"
     IN /\ TryPasses(plan.clusters, c, tier)
        /\ plan' = PlanAfter([plan EXCEPT !.placed = @ + 1, !.flip = ~@,
                                          !.clusters = PlaceAt(@, tier, c, << >>)])
  /\ PlanFrame

\* a call of the minor loop fails: the turn passes to the other tier
PlanMinorFails ==
  /\ plan.phase = "minor"
  /\ plan' = [plan EXCEPT !.flip = ~@]
  /\ PlanFrame

\* MINOR_TRY_BUDGET is used up: the plan is returned short of its target
PlanMinorBudget ==
  /\ plan.phase = "minor"
  /\ plan' = [plan EXCEPT !.phase = "done", !.warn_shortfall = (plan.placed < plan.target)]
  /\ PlanFrame

----------------------------------------------------------------------------
(* SemanticParser.js: the cache of parse results. Time is counted in ticks of *)
(* ten seconds; the hash of the key is taken to be free of collisions.        *)

CACHE_TTL_MS == 3

\* JSON.stringify(ctx ?? {}), for contexts within CONTEXT_MAX_LEN
serializeContext(ctx) == IF ctx = "null" THEN "{}" ELSE ctx
hashKey(raw, contextStr) == <<raw, contextStr>>

ParserTexts == { <<"look">>, <<" ", "look", " ">>, <<" ">> }
ParserContexts == { "null", "{}", "{turn:1}" }
CacheKeys == { hashKey(Trim(t), serializeContext(c)) : t \in ParserTexts \ {<<" ">>}, c \in ParserContexts }
Callers == {1, 2}

NoResult == [success |-> FALSE, confidence |-> << >>, intent |-> [primary |-> NoAction, secondaries |-> << >>, compound |-> FALSE]]
NoCached == [has |-> FALSE, value |-> NoResult, expiresAt |-> 0, storedAt |-> 0]
NoKey == << >>
NoLookup == [had |-> FALSE, hit |-> FALSE, at |-> 0, storedAt |-> 0, removed |-> FALSE, called |-> FALSE,
             value |-> NoResult, stored |-> NoResult]
NoParser == [now |-> 0, cache |-> [k \in CacheKeys |-> NoCached], pending |-> [c \in Callers |-> NoKey],
             look |-> NoLookup]

\* a cache that keeps its entries a tick too long
ExpiredLate(e, t) == t > e.expiresAt + 1
\* getFromCache: _now() > e.expiresAt
Expired(e, t) == t > e.expiresAt

\* getFromCache(key): the cache it leaves and the value it returns (found FALSE: null)
getFromCache(cache, key, t) ==
  LET e == cache[key]
  IN IF ~e.has THEN [cache |-> cache, found |-> FALSE, value |-> NoResult]
     ELSE IF Expired(e, t) THEN [cache |-> [cache EXCEPT ![key] = NoCached], found |-> FALSE, value |-> NoResult]
     ELSE [cache |-> cache, found |-> TRUE, value |-> e.value]

\* setToCache(key, value)
setToCache(cache, key, value, t) ==
  [cache EXCEPT ![key] = [has |-> TRUE, value |-> value, expiresAt |-> t + CACHE_TTL_MS, storedAt |-> t]]

ParserFrame == UNCHANGED <<heap, session, reqs, applied, last, call, disk, rolled, plan, npc, layers, structure, retry>>

\* Date.now() moves on
ParserTick ==
  /\ parser.now < MaxClock
  /\ parser' = [parser EXCEPT !.now = @ + 1]
  /\ ParserFrame

\* normalizeUserIntent up to its await: empty input, a hit of the cache, or a
\* call of the language model
ParseLookup(c, text, ctx) ==
  /\ parser.pending[c] = NoKey
  /\ LET raw == Trim(text)
         key == hashKey(raw, serializeContext(ctx))
         got == getFromCache(parser.cache, key, parser.now)
         e   == parser.cache[key]
     IN IF raw = << >> THEN parser' = [parser EXCEPT !.look = NoLookup]
        ELSE parser' = [parser EXCEPT
               !.cache = got.cache,
               !.pending[c] = IF got.found THEN NoKey ELSE key,
               !.look = [had |-> e.has, hit |-> got.found, at |-> parser.now, storedAt |-> e.storedAt,
                         removed |-> ~got.cache[key].has, called |-> ~got.found,
                         value |-> got.value, stored |-> e.value]]
  /\ ParserFrame

----------------------------------------------------------------------------
(* NPC generation (src/unnamed/part_000). The generator's state is a 31-bit *)
(* number s and a draw is the fraction s / 0x7fffffff. The step computes     *)
(* s * 1103515245 + 12345 in double precision, so a product of 54 bits or    *)
(* more is rounded to 53 significant bits before the low 31 bits are taken.  *)
(* Numbers up to 2^62 are held as <<H, p>>, standing for H * 2^31 + p.       *)

LcgMask == 2147483647
\* the limbs of the long multiplication: 15 bits, so that no partial sum passes 2^31
Limb == 2 ^ 15
LcgA == 1103515245
LcgC == 12345

\* name, criminal_weight in hundredths, min_age
JOB_CATEGORIES_BY_TIER ==
  <<
  <<
    <<"governor", 10, 30>>, <<"commander", 15, 28>>, <<"judge", 5, 40>>,
    <<"high_priest", 5, 35>>, <<"merchant_prince", 20, 35>>, <<"bureaucrat", 15, 30>>,
    <<"diplomat", 10, 35>>, <<"spymaster", 50, 35>>, <<"warlord", 30, 30>>,
    <<"nobleman", 20, 25>>, <<"council_member", 15, 40>>
  >>,
  <<
    <<"merchant", 30, 20>>, <<"scholar", 5, 20>>, <<"healer", 5, 22>>, <<"engineer", 5, 20>>,
    <<"craftmaster", 10, 25>>, <<"captain", 20, 25>>, <<"navigator", 10, 20>>,
    <<"architect", 5, 25>>, <<"cartographer", 5, 25>>, <<"researcher", 5, 22>>,
    <<"alchemist", 15, 25>>, <<"scribe", 5, 18>>, <<"philosopher", 5, 28>>,
    <<"performer", 10, 16>>, <<"poet", 10, 18>>, <<"artist", 5, 16>>, <<"blacksmith", 10, 18>>,
    <<"mason", 8, 18>>, <<"naturalist", 5, 20>>, <<"astronomer", 5, 22>>,
    <<"librarian", 5, 20>>, <<"weaponsmith", 15, 20>>
  >>,
  <<
    <<"soldier", 20, 16>>, <<"laborer", 10, 14>>, <<"servant", 10, 12>>, <<"guard", 25, 16>>,
    <<"farmer", 5, 14>>, <<"carpenter", 10, 14>>, <<"cook", 5, 14>>, <<"herder", 5, 12>>,
    <<"miller", 8, 14>>, <<"miner", 10, 16>>, <<"hunter", 10, 14>>, <<"fisher", 8, 13>>,
    <<"messenger", 10, 12>>, <<"courier", 15, 14>>, <<"apprentice", 10, 11>>,
    <<"tinker", 15, 14>>, <<"weaver", 8, 14>>, <<"tanner", 12, 14>>, <<"butcher", 15, 14>>,
    <<"gardener", 5, 14>>, <<"medic", 10, 16>>, <<"muscle", 60, 16>>, <<"fence", 80, 18>>,
    <<"smuggler", 70, 16>>, <<"paper_boy", 5, 8>>, <<"stable_hand", 10, 12>>,
    <<"shop_assistant", 8, 11>>
  >>,
  <<
    <<"beggar", 15, 5>>, <<"vagrant", 20, 12>>, <<"thief", 100, 12>>,
    <<"extortionist", 100, 16>>, <<"refugee", 10, 5>>, <<"outcast", 20, 10>>,
    <<"gambler", 30, 16>>, <<"informant", 70, 14>>, <<"charlatan", 90, 18>>,
    <<"hermit", 5, 30>>, <<"lookout", 90, 12>>, <<"street_urchin", 30, 5>>
  >>
  >>
TraitsCatalogLength == 104
FourteenDays == 1209600000

\* the number of bits of x, 0 <= x < 2^31
bitLength(x) == Cardinality({ b \in 0..30 : 2 ^ b <= x })

\* s * 1103515245, exactly: the product of the 15-bit limbs with their carries
Product(s) ==
  LET s0 == s % Limb
      s1 == (s \div Limb) % Limb
      s2 == s \div (Limb * Limb)
      a0 == LcgA % Limb
      a1 == (LcgA \div Limb) % Limb
      a2 == LcgA \div (Limb * Limb)
      t0 == s0 * a0
      t1 == s0 * a1 + s1 * a0 + (t0 \div Limb)
      t2 == s0 * a2 + s1 * a1 + s2 * a0 + (t1 \div Limb)
      t3 == s1 * a2 + s2 * a1 + (t2 \div Limb)
      t4 == s2 * a2 + (t3 \div Limb)
  IN << ((t2 % Limb) \div 2) + (t3 % Limb) * 16384 + t4 * 536870912,
        (t0 % Limb) + (t1 % Limb) * Limb + ((t2 % Limb) % 2) * (Limb * Limb) >>

\* n + c for a small c
AddSmall(n, c) ==
  IF n[2] > LcgMask - c THEN << n[1] + 1, n[2] - (LcgMask - c) - 1 >>
  ELSE << n[1], n[2] + c >>

\* the double nearest to n: n itself up to 53 bits, else n rounded to 53
\* significant bits, a tie going to the even neighbour
RoundDouble(n) ==
  LET bits == IF n[1] > 0 THEN 31 + bitLength(n[1]) ELSE bitLength(n[2])
      k    == bits - 53
      unit == 2 ^ k
      rem  == n[2] % unit
      base == n[2] - rem
      up   == rem * 2 > unit \/ (rem * 2 = unit /\ (n[2] \div unit) % 2 = 1)
  IN IF k <= 0 THEN n
     ELSE IF ~up THEN << n[1], base >>
     ELSE IF base > LcgMask - unit THEN << n[1] + 1, base - (LcgMask - unit) - 1 >>
     ELSE << n[1], base + unit >>

\* for contrast: the step of the generator in exact integer arithmetic
lcgStepExact(s) == AddSmall(Product(s), LcgC)[2]

\* makeLCG, rng(): s = (s * 1103515245 + 12345) & 0x7fffffff
lcgStep(s) == RoundDouble(AddSmall(RoundDouble(Product(s)), LcgC))[2]

\* makeLCG: the state of a new generator, (seed0|0) & 0x7fffffff
makeLCG(seed0) == IF seed0 >= 0 THEN seed0 ELSE (seed0 + LcgMask) + 1

\* r < p / q, for the draw r = s / 0x7fffffff: s * q < p * 0x7fffffff, worked
\* out on the quotient and remainder of 0x7fffffff by q
Below(s, p, q) ==
  LET d == s - p * (LcgMask \div q)
  IN d < 0 \/ (d <= p /\ d * q < p * (LcgMask % q))
\* Math.floor(r * n): the number of j in 1..n with j * 0x7fffffff <= s * n
FloorOf(s, n) ==
  Cardinality({ j \in 1..n : j * (LcgMask \div n) + ((j * (LcgMask % n) + n - 1) \div n) <= s })

\* the rejection loop of the traits, entered with the generator in state s; it
\* leaves the traits picked and the state of the generator after its last draw
RECURSIVE PickTraits(_, _, _)
PickTraits(s, traits, tcount) ==
  IF Len(traits) >= tcount THEN [traits |-> traits, s |-> s]
  ELSE LET r   == lcgStep(s)
           idx == Min(TraitsCatalogLength - 1, FloorOf(r, TraitsCatalogLength))
       IN IF \E k \in DOMAIN traits : traits[k] = idx
            THEN PickTraits(r, traits, tcount)
            ELSE PickTraits(r, Append(traits, idx), tcount)

\* String(site_id || "")
SiteString(site_id) == IF site_id = "null" THEN "" ELSE site_id

\* the states of the generator after each of n calls of rng(), from state s
RECURSIVE Draws(_, _)
Draws(s, n) ==
  IF n = 0 THEN << >>
  ELSE LET r == lcgStep(s) IN <<r>> \o Draws(r, n - 1)

\* `tier`, from r_tier
tierOf(r_tier) ==
  IF Below(r_tier, 5, 100) THEN 1
  ELSE IF Below(r_tier, 25, 100) THEN 2
  ELSE IF Below(r_tier, 90, 100) THEN 3 ELSE 4

\* `job`: the pool of the tier filtered by min_age, the placeholder if none is left
jobOf(tier, age, r_job) ==
  LET valid    == SelectSeq(JOB_CATEGORIES_BY_TIER[tier], LAMBDA j : age >= j[3])
      pickFrom == IF valid # << >> THEN valid ELSE << <<"unemployed", 0, 0>> >>
  IN pickFrom[Min(Len(pickFrom) - 1, FloorOf(r_job, Len(pickFrom))) + 1]

\* minC and maxC in tenths, from r_corr
corruptionBand(r_corr) ==
  IF Below(r_corr, 60, 100) THEN <<0, 3>>
  ELSE IF Below(r_corr, 90, 100) THEN <<3, 7>> ELSE <<7, 10>>

\* `tcount`, from r_trait
traitCount(r_trait) ==
  IF Below(r_trait, 35, 100) THEN 1 ELSE IF Below(r_trait, 75, 100) THEN 2 ELSE 3

\* `wealth_tier`: Math.floor(7 + r*3), (5 + r*4), (2 + r*4), (0 + r*2) by tier
wealthOf(tier, r_w) ==
  IF tier = 1 THEN 7 + FloorOf(r_w, 3)
  ELSE IF tier = 2 THEN 5 + FloorOf(r_w, 4)
  ELSE IF tier = 3 THEN 2 + FloorOf(r_w, 4) ELSE FloorOf(r_w, 2)

\* `home_location`, from r_home
homeOf(sid, r_home) ==
  IF Below(r_home, 80, 100) THEN sid
  ELSE IF Below(r_home, 95, 100) THEN "wanderer" ELSE "null"

\* generateNPC(seed, site_id), called when the clock reads now; a trait is
\* its index in TRAITS_CATALOG, corruption_level the range in tenths and the draw
\* in it. The draws are, in order: tier, age, gender, job; the criminal draw if
\* the job's weight is strictly between 0 and 1; corruption band, corruption
\* level, trait count; the traits; wealth, reputation, home, lx, ly.
generateNPC(seed, site_id, now) ==
  LET sid    == SiteString(site_id)
      first  == Draws(makeLCG(seed), 4)
      tier   == tierOf(first[1])
      age    == 5 + FloorOf(first[2], 80)
      job    == jobOf(tier, age, first[4])
      drawn  == job[2] > 0 /\ job[2] < 100
      mid    == Draws(first[4], IF drawn THEN 4 ELSE 3)
      picked == PickTraits(mid[Len(mid)], << >>, traitCount(mid[Len(mid)]))
      rest   == Draws(picked.s, 5)
  IN [id |-> <<sid, "#npc_", seed>>, site_id |-> sid, age |-> age,
      gender |-> IF Below(first[3], 1, 2) THEN "male" ELSE "female", tier |-> tier,
      job_category |-> job[1], home_location |-> homeOf(sid, rest[3]), faction_id |-> "null",
      wealth_tier |-> wealthOf(tier, rest[1]), player_reputation |-> FloorOf(rest[2], 50) - 25,
      traits |-> picked.traits,
      corruption_level |-> corruptionBand(mid[Len(mid) - 2]) \o <<mid[Len(mid) - 1]>>,
      is_criminal |-> IF job[2] >= 100 THEN TRUE
                      ELSE IF job[2] > 0 THEN Below(mid[1], job[2], 100) ELSE FALSE,
      position |-> [mx |-> 0, my |-> 0, lx |-> FloorOf(rest[4], 12), ly |-> FloorOf(rest[5], 12)],
      state |-> "active", created_at_utc |-> now, expires_at_utc |-> now + FourteenDays,
      schedule |-> "null"]

NoNpc == [now |-> 0, made |-> << >>]
NpcFrame == UNCHANGED <<heap, session, reqs, applied, last, call, disk, rolled, plan, parser, layers, structure, retry>>

\* new Date() moves on
NpcTick ==
  /\ npc.now < MaxClock
  /\ npc' = [npc EXCEPT !.now = @ + 1]
  /\ NpcFrame

\* a caller takes an NPC; the calls of the last two are remembered
GenerateNPC(seed, site_id) ==
  /\ npc' = [npc EXCEPT !.made = Append(IF Len(@) >= 2 THEN Tail(@) ELSE @,
                                        [seed |-> seed, site_id |-> site_id,
                                         out |-> generateNPC(seed, site_id, npc.now)])]
  /\ NpcFrame

----------------------------------------------------------------------------
(* DeepSeekIntegration.generateQuestNarrative: the retry loop around the call of  *)
(* the language model. Each quest template has one call of it in flight at most; *)
(* calls and waits are ghosts counting the requests sent and the timers set.     *)

NarrativeQuests == {"q1", "q2"}
IdleNarrative == [pc |-> "idle", attempt |-> 0, calls |-> 0, waits |-> << >>,
                  success |-> FALSE, error |-> "", returned |-> 0]
IdleRetry == [q \in NarrativeQuests |-> IdleNarrative]
RetryFrame ==
  UNCHANGED <<heap, session, reqs, applied, last, call, disk, rolled, plan, parser, npc, layers, structure>>

\* for contrast: a loop that gives up one attempt later
PastLastAttempt(attempt) == attempt = maxRetries + 1

\* `attempt === this.maxRetries`
LastAttempt(attempt) == attempt = maxRetries

\* `this.retryDelay * Math.pow(2, attempt - 1)`
backoff(attempt) == retryDelay * (2 ^ (attempt - 1))

\* generateQuestNarrative up to its first await: it throws without an API key,
\* else the first request is sent
NarrativeStart(q, hasKey) ==
  /\ retry[q].pc \in {"idle", "done"}
  /\ retry' = [retry EXCEPT ![q] =
       IF hasKey THEN [IdleNarrative EXCEPT !.pc = "calling", !.attempt = 1, !.calls = 1]
       ELSE [IdleNarrative EXCEPT !.pc = "done", !.error = "DeepSeek API key not configured"]]
  /\ RetryFrame

\* the request settles: a reply that parses returns success; a failed request or a
\* reply that does not parse is caught, and the loop returns or sets the timer
NarrativeReply(q, reply) ==
  /\ retry[q].pc = "calling"
  /\ retry' = [retry EXCEPT ![q] =
       IF reply = "ok"
         THEN [@ EXCEPT !.pc = "done", !.success = TRUE, !.returned = retry[q].attempt]
       ELSE IF LastAttempt(@.attempt)
         THEN [@ EXCEPT !.pc = "done", !.success = FALSE, !.error = reply, !.returned = retry[q].attempt]
       ELSE [@ EXCEPT !.pc = "waiting", !.waits = Append(@, backoff(retry[q].attempt))]]
  /\ RetryFrame

\* the timer fires: the next pass of the loop sends the next request
NarrativeWake(q) ==
  /\ retry[q].pc = "waiting"
  /\ retry' = [retry EXCEPT ![q] = [@ EXCEPT !.pc = "calling", !.attempt = @ + 1, !.calls = @ + 1]]
  /\ RetryFrame

----------------------------------------------------------------------------
(* Layers: Engine.js enterL2FromL1, enterL3FromL2, exitL2ToL1, exitL3ToL2 over
   state.world, with the NPC ids WorldGen.generateL2NPCs writes and the part of
   validateQuestAction that reads them. Strings are sequences of characters. *)

SubtypeChars(subtype) ==
  CASE subtype = "outpost" -> <<"o", "u", "t", "p", "o", "s", "t">>
    [] subtype = "hamlet"  -> <<"h", "a", "m", "l", "e", "t">>
    [] subtype = "ruins"   -> <<"r", "u", "i", "n", "s">>
    [] OTHER               -> <<"?">>

\* Engine.js, enterL2FromL1: `M${mx}x${my}/L1_${lx}_${ly}_${subtype}`
l2_id(cell) ==
  <<"M">> \o Decimal(cell.mx) \o <<"x">> \o Decimal(cell.my) \o <<"/", "L", "1", "_">>
    \o Decimal(cell.lx) \o <<"_">> \o Decimal(cell.ly) \o <<"_">> \o SubtypeChars(cell.subtype)

\* WorldGen.js, generateL2NPCs: `npc_${settlementId}_${index}`
persistentId(settlementId, index) ==
  <<"n", "p", "c", "_">> \o settlementId \o <<"_">> \o Decimal(index)

\* WorldGen.js, getNPCCountForSettlement
getNPCCountForSettlement(settlementType) ==
  CASE settlementType = "outpost" -> 3
    [] settlementType = "hamlet"  -> 8
    [] OTHER                      -> 10

\* WorldGen.js, SETTLEMENT_SIZES[type].buildings, the village row for an unknown type
BuildingCount(settlementType) ==
  CASE settlementType = "outpost" -> 2
    [] settlementType = "hamlet"  -> 4
    [] OTHER                      -> 8

\* WorldGen.js, generateL2NPCs: the pool of NPCs.js, each with its persistent id;
\* generateNPC stamps each with the time of the call
generateL2NPCs(settlementId, settlementType, now) ==
  [i \in 1..getNPCCountForSettlement(settlementType) |->
     [id |-> persistentId(settlementId, i - 1), settlement_id |-> settlementId,
      created_at_utc |-> now]]

\* WorldGen.js, generateL2Settlement: the settlement with the NPC array it was given,
\* buildings bld_0 .. bld_(n-1), and the time it was made
generateL2Settlement(settlement_id, settlement_type, npcs, now) ==
  [id |-> settlement_id, type |-> settlement_type, npcs |-> npcs,
   buildings |-> 0..(BuildingCount(settlement_type) - 1), created_at |-> now]

\* the regular expression /^npc_([^_]+)_\d+$/ on a string: after "npc_" one or more
\* characters other than "_", then "_", then one or more digits up to the end.
\* The group cannot hold a "_", so it ends at the first "_" after the prefix.
NoMatch == [matched |-> FALSE, group |-> << >>]
matchNpcId(s) ==
  LET rest  == SubSeq(s, 5, Len(s))
      stops == { k \in 1..Len(rest) : rest[k] = "_" }
      k     == CHOOSE i \in stops : \A j \in stops : i <= j
      tail  == SubSeq(rest, k + 1, Len(rest))
  IN IF Len(s) < 5 \/ SubSeq(s, 1, 4) # <<"n", "p", "c", "_">> THEN NoMatch
     ELSE IF stops = {} THEN NoMatch
     ELSE IF k = 1 \/ tail = << >> THEN NoMatch
     ELSE IF \E i \in 1..Len(tail) : tail[i] \notin Range(DigitChars) THEN NoMatch
     ELSE [matched |-> TRUE, group |-> SubSeq(rest, 1, k - 1)]

\* ActionProcessor.js, getNPCInSettlement over world.settlements
npcInSettlement(settlements, settlementId, npcId) ==
  /\ settlementId \in DOMAIN settlements
  /\ \E i \in 1..Len(settlements[settlementId].npcs) :
       settlements[settlementId].npcs[i].id = npcId

\* ActionProcessor.js, validateQuestAction up to the NPC lookup: the error it
\* returns there, or "found" when it goes on with the NPC
validateNpcTarget(npcId, settlements) ==
  LET match == matchNpcId(npcId)
  IN IF npcId = << >> THEN "NO_NPC_TARGET"
     ELSE IF ~match.matched THEN "INVALID_NPC_ID_FORMAT"
     ELSE IF ~npcInSettlement(settlements, match.group, npcId) THEN "NPC_NOT_FOUND"
     ELSE "found"

Null == << >>
NoChecked == [npcId |-> << >>, error |-> "none"]
NoLayers == [now |-> 0, settlements |-> << >>, allQuestsSeeded |-> << >>,
             l2_active |-> Null, l3_active |-> Null, current_layer |-> 1, player_layer |-> 1,
             entered |-> << >>, reentered |-> FALSE, checked |-> NoChecked]
LayerFrame == UNCHANGED <<heap, session, reqs, applied, last, call, disk, rolled, plan, parser, npc, structure, retry>>

\* new Date() moves on
LayerTick ==
  /\ layers.now < LayerClock
  /\ layers' = [layers EXCEPT !.now = @ + 1]
  /\ LayerFrame

\* a lookup in world.settlements that never finds the settlement
NeverStored(settlements, id) == id \in {}

StoredSettlement(settlements, id) == id \in DOMAIN settlements

\* Engine.js, enterL2FromL1. entered and reentered are ghosts: the id of the last
\* cell entered and whether its settlement was already stored.
EnterL2FromL1(cell) ==
  LET id      == l2_id(cell)
      known   == StoredSettlement(layers.settlements, id)
      npcs    == IF known THEN layers.settlements[id].npcs
                 ELSE generateL2NPCs(id, cell.subtype, layers.now)
      made    == generateL2Settlement(id, cell.subtype, npcs, layers.now)
      stored  == IF known THEN layers.settlements
                 ELSE [i \in DOMAIN layers.settlements \cup {id} |->
                         IF i = id THEN made ELSE layers.settlements[i]]
      seeded  == IF known \/ id \in DOMAIN layers.allQuestsSeeded THEN layers.allQuestsSeeded
                 ELSE [i \in DOMAIN layers.allQuestsSeeded \cup {id} |->
                         IF i = id THEN [settlement |-> id, made_at |-> layers.now]
                         ELSE layers.allQuestsSeeded[i]]
      l2      == IF cell.type = "settlement"
                 THEN [id |-> id, kind |-> "settlement", buildings |-> made.buildings,
                       settlement_data |-> id]
                 ELSE [id |-> id, kind |-> "poi", buildings |-> {}, settlement_data |-> id]
  IN /\ layers' = [layers EXCEPT !.settlements = stored, !.allQuestsSeeded = seeded,
                                 !.l2_active = <<l2>>, !.l3_active = Null,
                                 !.current_layer = 2, !.player_layer = 2,
                                 !.entered = id, !.reentered = known]
     /\ LayerFrame

\* Engine.js, enterL3FromL2: null without an active L2 or without the building
\* (a POI has no buildings at all, and the lookup throws)
EnterL3FromL2(building) ==
  /\ IF layers.l2_active # Null /\ building \in layers.l2_active[1].buildings
       THEN layers' = [layers EXCEPT !.l3_active = <<[building |-> building]>>,
                                     !.current_layer = 3, !.player_layer = 3]
       ELSE UNCHANGED layers
  /\ LayerFrame

\* Engine.js, exitL2ToL1
ExitL2ToL1 ==
  /\ layers' = [layers EXCEPT !.l2_active = Null, !.current_layer = 1, !.player_layer = 1]
  /\ LayerFrame

\* Engine.js, exitL3ToL2
ExitL3ToL2 ==
  /\ layers' = [layers EXCEPT !.l3_active = Null, !.current_layer = 2, !.player_layer = 2]
  /\ LayerFrame

\* the ids of the NPCs of the stored settlements
StoredNpcIds ==
  UNION { { layers.settlements[s].npcs[i].id : i \in 1..Len(layers.settlements[s].npcs) } :
            s \in DOMAIN layers.settlements }

\* a quest action on an NPC reaches validateQuestAction
ValidateTarget(npcId) ==
  /\ layers' = [layers EXCEPT !.checked = [npcId |-> npcId,
                                           error |-> validateNpcTarget(npcId, layers.settlements)]]
  /\ LayerFrame

----------------------------------------------------------------------------
(* Inputs *)

Single(a)      == [primary |-> a, secondaries |-> <<>>, compound |-> FALSE]
Compound(a, b) == [primary |-> a, secondaries |-> <<b>>, compound |-> TRUE]

\* SemanticParser.js, normalizeUserIntent: a failure carries intent null (and the
\* confidence only when it was below 0.5); a success is { success: true, intent },
\* the confidence being a field of the intent and not of the result
NoIntent == Single(NoAction)
normalizeUserIntent(reply) ==
  LET failed == [success |-> FALSE, confidence |-> << >>, intent |-> NoIntent]
  IN IF ~reply.ok THEN failed
     ELSE IF ~IsNumber(reply.confidence) THEN failed
     ELSE IF reply.confidence[1] < 5 THEN [failed EXCEPT !.confidence = reply.confidence]
     ELSE IF reply.intent.primary.action = "" THEN failed
     ELSE [success |-> TRUE, confidence |-> << >>, intent |-> reply.intent]
Act(name)      == [NoAction EXCEPT !.action = name]
Move(dir)      == [NoAction EXCEPT !.action = "move", !.dir = dir]
Drop(what)     == [NoAction EXCEPT !.action = "drop", !.target = what]

CoastPrompt == <<"a", "windy", "coast", "of", "pine", "islands">>
Texts == { <<"look">>, <<"go", "north">>, <<"drop", "dagger">>, <<"save">>, <<"new", "game">>,
           <<"begin", "again">>, CoastPrompt }

Intents == { Single(Act("look")), Compound(Act("look"), Act("wait")), Single(Move("n")),
             Single(Move("sideways")), Single(Drop(<<"dagger">>)),
             Compound(Act("look"), Drop(<<"dagger">>)), Single(Act("")) }

\* what the language model answers: no usable reply, or a JSON object with a
\* confidence (in tenths; << >> when it is not a number) and the actions it read
Replies == [ok : BOOLEAN, confidence : {<< >>, <<3>>, <<9>>}, intent : Intents]

\* the results normalizeUserIntent resolves to
Parses == { normalizeUserIntent(reply) : reply \in Replies }

\* parse results of the shape lines 742 and 756 of index.js test for: success
\* together with a confidence at the top level of the result
TopLevelParses == [success : {TRUE}, confidence : {<<3>>, <<9>>}, intent : Intents \ {Single(Act(""))}]

\* the inputs of the overlapping requests
ConcTexts == { <<"look">>, <<"drop", "dagger">> }
ConcParses == { normalizeUserIntent([ok |-> ok, confidence |-> <<9>>, intent |-> Single(Act("look"))]) :
                  ok \in BOOLEAN }

\* normalizeUserIntent after its await: the reply is read and the result cached
ParseReply(c, reply) ==
  /\ parser.pending[c] # NoKey
  /\ parser' = [parser EXCEPT
       !.cache = setToCache(@, parser.pending[c], normalizeUserIntent(reply), parser.now),
       !.pending[c] = NoKey]
  /\ ParserFrame

Dirs == {"n", "s", "e", "w", "x"}

QuestIds == {21, 22, 99}
CapQuestIds == {1, 10, 11, 12, 13}
NpcIds(sid) == { <<"npc", sid, d>> : d \in {"0", "1"} } \cup { <<"npc", sid>> }
QuestActions(sid, ids) ==
  { [action |-> a, target |-> t, dir |-> "", questId |-> q] :
      a \in {"accept_quest", "complete_quest"}, t \in NpcIds(sid), q \in ids \cup {0} }

----------------------------------------------------------------------------
(* Specifications *)

NoLast == [op |-> "none", result |-> "", pre |-> NoEntry, post |-> NoEntry, n |-> 0,
           calls |-> 0, reason |-> "", arg |-> NoAction]
NoCall == [made |-> FALSE, before |-> initState, after |-> initState, threw |-> FALSE,
           raw |-> <<>>, out |-> initState]

\* a new session (getSessionState): a fresh state, first turn pending, no request in flight
InitWith(slots, state) ==
  /\ heap = [r \in {1} |-> state]
  /\ session = [gameState |-> 1, isFirstTurn |-> TRUE]
  /\ reqs = [r \in slots |-> IdleReq]
  /\ applied = 0
  /\ last = NoLast
  /\ call = NoCall
  /\ files = << >>
  /\ saving = [s \in SaveSlots |-> IdleSave]
  /\ io = NoIo
  /\ rolled = NoQuest
  /\ plan = NoPlan
  /\ parser = NoParser
  /\ npc = NoNpc
  /\ layers = NoLayers
  /\ structure = NoStructure
  /\ retry = IdleRetry

\* one client: /narrate requests one after the other
Init == InitWith({1}, initState)
Next ==
  \/ \E r \in DOMAIN reqs, t \in Texts : NarrateStart(r, t)
  \/ \E r \in DOMAIN reqs : NarrateSystem(r)
  \/ \E r \in DOMAIN reqs, p \in Parses, throws \in BOOLEAN : NarrateParsed(r, p, throws)
Spec == Init /\ [][Next]_vars

\* one client, the parser answering in the shape the handler tests for
SemanticNext ==
  \/ \E r \in DOMAIN reqs, t \in Texts : NarrateStart(r, t)
  \/ \E r \in DOMAIN reqs : NarrateSystem(r)
  \/ \E r \in DOMAIN reqs, p \in TopLevelParses, throws \in BOOLEAN : NarrateParsed(r, p, throws)
  \/ \E r \in DOMAIN reqs, throws \in BOOLEAN : NarrateLoop(r, throws)
SemanticSpec == Init /\ [][SemanticNext]_vars

\* two clients of one session: /narrate requests that overlap
ConcInit == InitWith({1, 2}, initState)
ConcNext ==
  \/ \E r \in DOMAIN reqs, t \in ConcTexts : NarrateStart(r, t)
  \/ \E r \in DOMAIN reqs : NarrateSystem(r)
  \/ \E r \in DOMAIN reqs, p \in ConcParses : NarrateParsed(r, p, FALSE)
ConcSpec == ConcInit /\ [][ConcNext]_vars

\* the quest operations on a session that enters the hamlet
QuestNext ==
  \/ \E r0 \in {1, 2}, r1 \in {NoRank, 1} : EnterSettlement("s1", <<r0, r1>>)
  \/ \E q \in QuestIds : QuestAccept(q)
  \/ \E q \in QuestIds : QuestProgress(q)
  \/ \E q \in QuestIds : QuestComplete(q)
  \/ \E a \in QuestActions("s1", QuestIds) : ApplyQuestAction(a)
QuestSpec == Init /\ [][QuestNext]_vars

\* the quest operations on a session in the city, nine of its quests accepted
NearCap == 9
CapState ==
  LET s0 == enterL2FromL1(initState, "s2", <<1, 1, 1, 1>>)
  IN [s0 EXCEPT !.active = [k \in 1..NearCap |-> [s0.seeded[k] EXCEPT !.status = "accepted"]]]
CapInit == InitWith({1}, CapState)
CapNext ==
  \/ \E q \in CapQuestIds : QuestAccept(q)
  \/ QuestProgress(10)
  \/ \E q \in CapQuestIds : QuestComplete(q)
  \/ \E a \in QuestActions("s2", {1, 10}) : ApplyQuestAction(a)
CapSpec == CapInit /\ [][CapNext]_vars

\* the turn handler on sessions whose inventory holds items
RustyDagger == [type |-> "weapon", name |-> <<"rusty", "dagger">>, aliases |-> {<<"dagger">>},
                quantity |-> 1]
GoldCoins == [type |-> "gold", name |-> <<"gold", "coins">>, aliases |-> {}, quantity |-> 5]
Inventories == { <<RustyDagger>>, <<RustyDagger, GoldCoins>>, <<GoldCoins>> }
DropTexts == { <<"drop", "dagger">>, <<"drop", "rusty", "dagger">>, <<"drop", "the", "dagger">>,
               <<"look">> }
DropInit == \E inv \in Inventories : InitWith({1}, [initState EXCEPT !.inventory = inv])
DropNext ==
  \/ \E r \in DOMAIN reqs, t \in DropTexts : NarrateStart(r, t)
  \/ \E r \in DOMAIN reqs : NarrateSystem(r)
  \/ \E r \in DOMAIN reqs, p \in ConcParses : NarrateParsed(r, p, FALSE)
DropSpec == DropInit /\ [][DropNext]_vars

\* the quest system generating quests
SettlementTypes == {"hamlet", "village", "town", "city", "outpost"}
Help == <<"help">>
\* replies of the narrative model: clean, with a keyword in one field, incomplete
LlmReplies ==
  { Narrative(Help, 1), Narrative(Help, 2),
    [Narrative(Help, 1) EXCEPT !.antagonist = <<"Dragon">>],
    [Narrative(Help, 1) EXCEPT !.protagonist = <<"God">>],
    [Narrative(Help, 1) EXCEPT !.narrative = <<"help", "Dragon">>],
    [Narrative(Help, 1) EXCEPT !.narrative_hooks = <<Help, <<"god">> >>],
    [Narrative(Help, 1) EXCEPT !.step_narratives[1].objective = <<"demon">>],
    [Narrative(Help, 1) EXCEPT !.choice_consequences[1].consequence = <<"ancient">>],
    [Narrative(Help, 1) EXCEPT !.complications = << >>],
    [Narrative(Help, 1) EXCEPT !.complete = FALSE] }
LlmOutcomes ==
  { [NoLlm EXCEPT !.kind = k] : k \in {"no_key", "failed"} }
    \cup { [kind |-> "reply", reply |-> r] : r \in LlmReplies }
\* RNG values that give a trivial, a moderate, a hard and a deadly quest
GenRolls == {0, RngSteps \div 2, RngSteps - 2, RngSteps}
QuestGenNext ==
  \/ \E t \in {"hamlet", "city"}, kd \in GenRolls, kg \in {0, RngSteps}, n \in {1, 2} :
        GenerateStart(t, kd, kg, n)
  \/ \E llm \in LlmOutcomes, kf \in Rolls : GenerateNarrative(llm, kf)
QuestGenSpec == Init /\ [][QuestGenNext]_vars

\* the constraint engine rolling quests, every RNG value of the grid
RollNext == \E t \in SettlementTypes, kd \in Rolls, kg \in Rolls : RollQuest(t, kd, kg)
RollSpec == Init /\ [][RollNext]_vars

\* a session whose settlement is seeded with quests built by the quest system;
\* the client keeps calling /quest/progress and /quest/complete
JourneyQuestIds == {31, 32, 33}
JourneyState ==
  [initState EXCEPT !.npcs = SettlementNPCs("s1", <<1, 1>>),
                    !.seeded = << TemplateQuest(31, "s1", "0"), TemplateQuest(32, "s1", "1"),
                                  TemplateQuest(33, "s1", "1") >>]
JourneyInit == InitWith({1}, JourneyState)
JourneyNext ==
  \/ \E q \in JourneyQuestIds \cup {99} : QuestAccept(q)
  \/ \E q \in JourneyQuestIds \cup {99} : QuestProgress(q)
  \/ \E q \in JourneyQuestIds : QuestProgressTo(q, 3)
  \/ \E q \in JourneyQuestIds \cup {99} : QuestComplete(q)
JourneySpec ==
  /\ JourneyInit /\ [][JourneyNext]_vars
  /\ \A q \in JourneyQuestIds : WF_vars(QuestProgress(q)) /\ WF_vars(QuestComplete(q))

\* two clients of one session in a settlement: /narrate turns that overlap, and
\* /quest/accept requests arriving at any moment
AcceptQuestIds == {21}
AcceptParses == { normalizeUserIntent([ok |-> FALSE, confidence |-> << >>, intent |-> Single(Act("look"))]) }
AcceptInit == InitWith({1, 2}, enterL2FromL1(initState, "s1", <<1, 1>>))
AcceptNext ==
  \/ \E r \in DOMAIN reqs : NarrateStart(r, <<"look">>)
  \/ \E r \in DOMAIN reqs : NarrateSystem(r)
  \/ \E r \in DOMAIN reqs, p \in AcceptParses : NarrateParsed(r, p, FALSE)
  \/ \E q \in AcceptQuestIds : QuestAccept(q)
AcceptSpec == AcceptInit /\ [][AcceptNext]_vars

\* the layer functions called in any order on cells of one macro, and quest actions
\* on the NPCs of the settlements stored so far
LayerCells ==
  { [mx |-> 0, my |-> 0, lx |-> 3, ly |-> 4, type |-> "settlement", subtype |-> "outpost"],
    [mx |-> 0, my |-> 0, lx |-> 10, ly |-> 11, type |-> "poi", subtype |-> "ruins"] }
LayerBuildings == {0, 9}
LayerNext ==
  \/ LayerTick
  \/ \E cell \in LayerCells : EnterL2FromL1(cell)
  \/ \E b \in LayerBuildings : EnterL3FromL2(b)
  \/ ExitL2ToL1
  \/ ExitL3ToL2
  \/ \E id \in StoredNpcIds : ValidateTarget(id)
LayerSpec == Init /\ [][LayerNext]_vars

\* quest structures built for the short kinds of quest, from rolls at the ends and
\* in the middle of the RNG's range
StructureKinds == {"single", "short"}
StructureRolls == {0, (RngSteps + 1) \div 2, RngSteps}
CountRolls == {0, (RngSteps + 1) \div 2}
StructureNext ==
  \/ \E c \in StructureKinds, k \in StructureRolls : StructureBegin(c, k)
  \/ \E kn \in CountRolls, ks \in [1..3 -> StructureRolls] : StructureStep(kn, ks)
StructureSpec == Init /\ [][StructureNext]_vars

\* the narratives of two quests asked for, their requests failing or not
NarrativeReplies == {"ok", "timeout", "no JSON"}
RetryNext ==
  \/ \E q \in NarrativeQuests, hasKey \in BOOLEAN : NarrativeStart(q, hasKey)
  \/ \E q \in NarrativeQuests, reply \in NarrativeReplies : NarrativeReply(q, reply)
  \/ \E q \in NarrativeQuests : NarrativeWake(q)
RetrySpec == Init /\ [][RetryNext]_vars

\* world prompts of up to three words, with keywords of three biomes among them
PromptWords == {"city", "farm", "coast", "sea", "windy"}
Prompts == UNION { [1..n -> PromptWords] : n \in {1, 2, 3} }
BiomeNext == \E desc \in Prompts : DescribeWorld(desc)
BiomeSpec == Init /\ [][BiomeNext]_vars

\* NPCs generated for two sites
NpcSeeds == {-1, 0, 16872, 171943, 801440601}
NpcSites == {"null", "M0x0_1"}
NpcNext ==
  \/ NpcTick
  \/ \E seed \in NpcSeeds, site_id \in NpcSites : GenerateNPC(seed, site_id)
NpcSpec == Init /\ [][NpcNext]_vars

\* the parser called by two requests at a time
CacheReplies == { [ok |-> ok, confidence |-> <<9>>, intent |-> Single(Act("look"))] : ok \in BOOLEAN }
ParserNext ==
  \/ ParserTick
  \/ \E c \in Callers, t \in ParserTexts, x \in ParserContexts : ParseLookup(c, t, x)
  \/ \E c \in Callers, reply \in CacheReplies : ParseReply(c, reply)
ParserSpec == Init /\ [][ParserNext]_vars

\* planSitesForMacro on macros of 12 x 12 cells
PlanTargets == {7, 11}
\* the cells the tries of each loop land on
PlanCityCells == { <<1, 1>>, <<8, 8>> }
PlanTownCells == { <<1, 4>>, <<4, 1>>, <<4, 4>> }
PlanMinorCells == { <<10, 1>>, <<7, 1>>, <<1, 7>>, <<5, 4>> }
PlanGrowths == { << <<1, <<1, 0>> >>, <<2, <<1, 0>> >> >>, << <<1, <<0, 1>> >>, <<1, <<1, 0>> >> >> }
PlanNext ==
  \/ \E t \in PlanTargets : PlanBegin(t)
  \/ \E c \in PlanCityCells, g \in PlanGrowths : PlanCity(c, g)
  \/ \E c \in PlanTownCells : PlanTown(c)
  \/ PlanTownBudget
  \/ \E c \in PlanMinorCells : PlanMinor(c)
  \/ PlanMinorFails
  \/ PlanMinorBudget
PlanSpec == Init /\ [][PlanNext]_vars

\* the world generator stepped with movements
\* save names as typed after "save " / "load ", lower-cased
One == <<"o", "n", "e">>
SaveNames == { One, <<"!">> }
LoadNames == { One, Candidate(One, 1) }

\* saves, loads and turns of one session, one request at a time
SaveNext ==
  \/ \E name \in SaveNames : SaveStart(1, name)
  \/ SaveCounted(1)
  \/ SaveExists(1)
  \/ SaveProbe(1)
  \/ SaveWrite(1)
  \/ \E name \in LoadNames : LoadSave(name)
  \/ SaveTurn
SaveSpec == Init /\ [][SaveNext]_vars

\* two "save one" requests of one session in progress at once
RaceNext ==
  \/ \E s \in SaveSlots : SaveStart(s, One)
  \/ \E s \in SaveSlots : SaveCounted(s)
  \/ \E s \in SaveSlots : SaveExists(s)
  \/ \E s \in SaveSlots : SaveProbe(s)
  \/ \E s \in SaveSlots : SaveWrite(s)
RaceSpec == Init /\ [][RaceNext]_vars

WorldNext == \E d \in Dirs : WorldStep(d)
WorldSpec == Init /\ [][WorldNext]_vars

----------------------------------------------------------------------------
(* Properties of the turn handler *)

Accepted == last.op = "narrate" /\ last.result = "accepted"
Failed   == last.op = "narrate" /\ last.result = "engine_failed"
Rejected == last.op = "narrate" /\ last.result = "rejected"
AllIdle  == \A r \in DOMAIN reqs : reqs[r].pc = "idle"

C2_NoLostTurn ==
  AllIdle => heap[session.gameState].turn_counter = applied

\* C3: when Engine.buildOutput throws during a /narrate request, the session entry
\* after the request (gameState and isFirstTurn) equals the entry before it.
C3_FailureKeepsEntry ==
  Failed => last.post = last.pre

\* C4: a rejected intent comes back with valid=false, a reason code and an empty
\* queue; no engine call is made and the stored entry is the one before the request.
C4_RejectionAppliesNothing ==
  /\ Rejected => /\ last.n = 0
                 /\ last.reason \notin {"", "ok"}
                 /\ last.calls = 0
                 /\ last.post = last.pre
  /\ \A i \in Intents :
       LET v == validateAndQueueIntent(heap[session.gameState], i)
       IN ~v.valid => v.queue = <<>> /\ v.reason # "ok"

\* a compound intent whose second action fails validation was rejected
C4_Witness ==
  /\ Rejected
  /\ last.reason = "TARGET_NOT_IN_INVENTORY"
  /\ last.pre.state.turn_counter > 0
  /\ ~validateAndQueueIntent(heap[session.gameState], Compound(Act("look"), Drop(<<"dagger">>))).valid

\* C5: Engine.buildOutput leaves the object it is given as it was, whether the
\* call returns or throws.
C5_PrevStateUntouched ==
  call.made => call.after = call.before

\* an engine call returned a state that differs from the one it was given
C5_Witness ==
  /\ call.made /\ ~call.threw
  /\ Accepted
  /\ last.post.state.turn_counter = call.before.turn_counter + 1
  /\ last.post.state.cells # call.before.cells

----------------------------------------------------------------------------
(* Properties of the quest operations *)

AcceptOp   == last.op \in {"quest/accept", "accept_quest"}
CompleteOp == last.op \in {"quest/complete", "complete_quest"}
Lists(st)  == <<st.active, st.completed>>
Newest(s)  == s[Len(s)]

\* C6: quests.active never holds more than maxActiveQuests quests, whichever
\* path adds them.
C6_ActiveWithinCap ==
  Len(heap[session.gameState].active) <= MaxActiveQuests

\* the cap is reached and a further acceptance was refused for it
C6_Witness ==
  /\ Len(heap[session.gameState].active) = MaxActiveQuests
  /\ AcceptOp
  /\ last.result \in {"ACTIVE_QUEST_LIMIT", "MAX_ACTIVE_QUESTS_REACHED"}
  /\ Len(last.pre.state.active) = MaxActiveQuests

\* C7: a quest enters quests.active only when fewer than ten are active and it is
\* seeded, not active and not completed; otherwise an error code is returned and
\* the quest lists stay as they were.
C7_AcceptOnlyWhenAllowed ==
  AcceptOp =>
    IF last.post.state.active # last.pre.state.active
      THEN LET q == Newest(last.post.state.active).id
           IN /\ Len(last.pre.state.active) < MaxActiveQuests
              /\ HasId(last.pre.state.seeded, q)
              /\ ~HasId(last.pre.state.active, q)
              /\ ~HasId(last.pre.state.completed, q)
      ELSE /\ last.result # "ok"
           /\ Lists(last.post.state) = Lists(last.pre.state)

\* C8: a quest moves from active to completed only when it is active, its
\* current_step equals its total_steps and the request names its own giver NPC;
\* otherwise an error code is returned and the quest stays active.
C8_CompleteOnlyWhenDone ==
  CompleteOp =>
    IF last.post.state.completed # last.pre.state.completed
      THEN LET a == FindIndex(last.pre.state.active,
                              LAMBDA q : q.id = Newest(last.post.state.completed).id)
           IN /\ a # 0
              /\ last.pre.state.active[a].current_step = last.pre.state.active[a].total_steps
              /\ last.arg.target = last.pre.state.active[a].giver_npc_id
      ELSE /\ last.result # "ok"
           /\ last.post.state.active = last.pre.state.active

\* C9: every successful completion adds exactly reward_gold to the player's gold,
\* into the gold item the inventory has, or as one new gold item.
C9_CompletionPaysReward ==
  (CompleteOp /\ last.result = "ok") =>
    LET pre  == last.pre.state.inventory
        post == last.post.state.inventory
        paid == Newest(last.post.state.completed).reward_gold
    IN /\ Gold(last.post.state) = Gold(last.pre.state) + paid
       /\ Len(post) = IF \E i \in 1..Len(pre) : pre[i].type = "gold" THEN Len(pre) ELSE Len(pre) + 1

----------------------------------------------------------------------------
(* Properties of the streaming window *)

InMacro(c, pos) == c.mx = pos.mx /\ c.my = pos.my

\* C10: after a one-step move and the worldgen step, every cell of the player's
\* macro lies within Chebyshev distance R+P of the player.
C10_WindowBound ==
  last.op = "worldgen" =>
    LET st == heap[session.gameState]
    IN \A k \in DOMAIN st.cells :
         InMacro(st.cells[k], st.position) =>
           Cheb(st.cells[k].lx, st.cells[k].ly, st.position.lx, st.position.ly) <= StreamR + StreamP

\* the player moved and a cell that had been in the window is gone
C10_Witness ==
  /\ last.op = "worldgen"
  /\ last.post.state.position # last.pre.state.position
  /\ (DOMAIN last.pre.state.cells) \ (DOMAIN last.post.state.cells) # {}
  /\ DOMAIN last.post.state.cells # {}

\* the stored game state, and the states before and after the last operation
Game == heap[session.gameState]
Before == last.pre.state
After == last.post.state

\* the keys of the cells with their known and hydrated flags
Flags(cells) == [k \in DOMAIN cells |-> <<cells[k].known, cells[k].hydrated>>]

\* C11: a second worldGenStep with no move action, run on the state a first
\* worldGenStep returned, pushes no delta and leaves the keys of world.cells and
\* every cell's known and hydrated flags as they were.
C11_SecondStepIdle ==
  last.op = "worldgen" =>
    /\ worldGenDeltas(Game, NoAction) = {}
    /\ Flags(worldGenStep(Game, NoAction).cells) = Flags(Game.cells)

\* the first step moved the player, created and evicted cells and revealed a site
C11_Witness ==
  /\ last.op = "worldgen"
  /\ After.position # Before.position
  /\ (DOMAIN After.cells) \ (DOMAIN Before.cells) # {}
  /\ (DOMAIN Before.cells) \ (DOMAIN After.cells) # {}
  /\ (DOMAIN After.sites) \ (DOMAIN Before.sites) # {}

\* C12: after a worldgen step every key of world.cells is the canonical key
\* "L1:mx,my:lx,ly" of the cell stored under it.
C12_CanonicalKeys ==
  last.op = "worldgen" =>
    \A k \in DOMAIN Game.cells :
      k = byKey(Game.cells[k].mx, Game.cells[k].my, Game.cells[k].lx, Game.cells[k].ly)

\* the step created cells on the grid's right-hand edge column
C12_Witness ==
  /\ last.op = "worldgen"
  /\ \E k \in (DOMAIN After.cells) \ (DOMAIN Before.cells) : After.cells[k].lx = L1W - 1

\* the centre of a site's cluster is its first cell
CenterKey(site) == byKey(site.mx, site.my, site.cells[1][1], site.cells[1][2])

\* C13: every site in world.sites has the centre cell of its cluster in
\* world.cells with hydrated = true.
C13_SiteCenterHydrated ==
  \A id \in DOMAIN Game.sites :
    /\ CenterKey(Game.sites[id]) \in DOMAIN Game.cells
    /\ Game.cells[CenterKey(Game.sites[id])].hydrated

\* C14: a site that is in world.sites stays there, with the same cluster_id and
\* tier, over every later step, wherever the player moves.
C14_SitesStay ==
  [][ \A id \in DOMAIN heap[session.gameState].sites :
        /\ id \in DOMAIN heap'[session'.gameState].sites
        /\ heap'[session'.gameState].sites[id].cluster_id = heap[session.gameState].sites[id].cluster_id
        /\ heap'[session'.gameState].sites[id].tier = heap[session.gameState].sites[id].tier ]_vars

\* a site is still listed after a move that put its cell outside the window
C14_Witness ==
  /\ last.op = "worldgen"
  /\ After.position # Before.position
  /\ \E id \in DOMAIN Before.sites :
        /\ id \in DOMAIN After.sites
        /\ Cheb(After.sites[id].cells[After.sites[id].seg_index + 1][1],
                After.sites[id].cells[After.sites[id].seg_index + 1][2],
                After.position.lx, After.position.ly) > StreamR + StreamP

\* C15: after every step world.position is on the grids: 0 <= mx < 8, 0 <= my < 8,
\* 0 <= lx < l1.w and 0 <= ly < l1.h, whatever moves were asked for.
C15_PositionOnGrid ==
  /\ Game.position.mx \in 0..(L0W - 1) /\ Game.position.my \in 0..(L0H - 1)
  /\ Game.position.lx \in 0..(L1W - 1) /\ Game.position.ly \in 0..(L1H - 1)

\* a move north was asked for on the top row and the player stayed on it
C15_Witness ==
  /\ last.op = "worldgen"
  /\ last.arg.action = "move" /\ last.arg.dir = "n"
  /\ Before.position.ly = 0 /\ After.position.ly = 0

\* the deltas of the last buildOutput call other than the set of world.time_utc and
\* the state_rev increment that the time delta entails on every call
OtherDeltas ==
  buildOutputDeltas(call.before, [raw |-> call.raw])
    \ {<<"set", <<"time_utc">> >>, <<"inc", <<"counters", "state_rev">> >>}

C17_AtMostFiveSaves ==
  /\ getSaveCount(files) <= MaxSaves
  /\ (io.op = "save" /\ io.error = "SAVE_LIMIT_EXCEEDED") => ~io.wrote

\* C18: a save under a name whose sanitized form already exists writes a new file
\* "<name> (n).json", leaves the existing files untouched, and reports the name of
\* the file it wrote.
C18_UniqueNameWritten ==
  (io.op = "save" /\ io.ok /\ io.existed) =>
    /\ \E n \in 1..100 : io.file = cleanName(io.name) \o <<" ", "(">> \o Decimal(n) \o <<")", ".json">>
    /\ io.kept
    /\ io.file = io.reported \o <<".json">>

\* C19: a successful performSave(session, name, S) followed by performLoad(session,
\* name) returns a gameState equal to S, whatever saves the session already has.
C19_LoadReturnsSaved ==
  (io.op = "load" /\ io.afterSave) => (io.ok /\ io.loaded = io.state)

\* C20: on a non-first turn whose text the semantic parser read as a move to the
\* north (confidence 0.92), the accepted turn stores a position whose ly is one
\* less than before, or still 0 when it was 0, with mx, my and lx unchanged.
C20_MoveNorthMoves ==
  (Accepted /\ ~last.pre.isFirstTurn /\ last.arg = Move("n")) =>
    /\ After.position.ly = (IF Before.position.ly = 0 THEN 0 ELSE Before.position.ly - 1)
    /\ After.position.mx = Before.position.mx
    /\ After.position.my = Before.position.my
    /\ After.position.lx = Before.position.lx

----------------------------------------------------------------------------
(* Properties of the player actions *)

\* C21: with the inventory holding exactly the rusty dagger (alias "dagger"), a
\* turn whose action is "drop dagger" stores an empty inventory, pushes the delta
\* set /player/inventory and raises counters.inventory_rev by one.
C21_DropDaggerDrops ==
  (call.made /\ ~call.threw /\ call.raw = <<"drop", "dagger">>
     /\ call.before.inventory = <<RustyDagger>>) =>
    /\ call.out.inventory = << >>
    /\ <<"set", <<"inventory">> >> \in buildOutputDeltas(call.before, [raw |-> call.raw])
    /\ <<"inc", <<"counters", "inventory_rev">> >> \in buildOutputDeltas(call.before, [raw |-> call.raw])

\* C22: after the first /narrate of a fresh session with the text "A windy coast
\* of pine islands." the stored state has world.macro_biome = "coast" and
\* turn_counter = 1.
C22_CoastPromptSeedsCoast ==
  (Accepted /\ last.pre.isFirstTurn /\ Before = initState /\ call.raw = CoastPrompt) =>
    /\ After.macro_biome = "coast"
    /\ After.turn_counter = 1

----------------------------------------------------------------------------
(* Properties of the quest system *)

\* C23: a quest rolled for a settlement of type hamlet never has difficulty
\* deadly, whatever value the quest RNG returns.
C23_HamletNeverDeadly ==
  (rolled.op # "none" /\ rolled.template.settlement_type = "hamlet") =>
    rolled.template.difficulty # "deadly"

\* C24: the reward_gold of every rolled quest lies between minGold and maxGold
\* of the tier of its difficulty, whatever value the quest RNG returns.
C24_RewardInTierRange ==
  rolled.op # "none" =>
    /\ rolled.template.reward_gold >= DIFFICULTY_TIERS[TierIndex(rolled.template.difficulty)].minGold
    /\ rolled.template.reward_gold <= DIFFICULTY_TIERS[TierIndex(rolled.template.difficulty)].maxGold

\* C25: in a quest returned with is_fallback = false, no forbidden keyword of its
\* difficulty occurs, in any case, in a text field the quest took from the
\* narrative: protagonist, antagonist, narrative, descriptions, hooks,
\* complications, step narratives and objectives, choice consequences.
C25_NoForbiddenKeyword ==
  (rolled.op = "generate" /\ rolled.result.success /\ ~rolled.result.is_fallback) =>
    _checkForbiddenKeywords(QuestText(rolled.result.quest),
                            FORBIDDEN_KEYWORDS(rolled.template.difficulty)) = {}

\* C26: generateCompleteQuest does not fail because of the narrative model: with
\* no API key, with every attempt failed or with a reply that fails validation,
\* it returns a quest that carries the fallback template and has is_fallback = true.
C26_FallbackNeverFails ==
  (rolled.op = "generate"
     /\ (rolled.llm.kind \in {"no_key", "failed"}
           \/ ~validateNarrativeResponse(rolled.template, rolled.llm.reply))) =>
    /\ rolled.result.success
    /\ rolled.result.is_fallback
    /\ rolled.result.quest = FallbackTemplate(rolled.template)

----------------------------------------------------------------------------
(* Properties of the site plan *)

\* C27: in every plan planSitesForMacro returns, either every two clusters have
\* their centre cells at Chebyshev distance at least the spacing of the larger of
\* their two tiers, or meta.warn_shortfall is true and a cluster was placed.
C27_PlanSpacing ==
  plan.phase = "done" =>
    \/ \A i, j \in DOMAIN plan.clusters :
         i < j => Cheb(Center(plan.clusters[i])[1], Center(plan.clusters[i])[2],
                       Center(plan.clusters[j])[1], Center(plan.clusters[j])[2])
                    >= Max(spacing(plan.clusters[i].tier), spacing(plan.clusters[j].tier))
    \/ (plan.warn_shortfall /\ Len(plan.clusters) >= 1)

----------------------------------------------------------------------------
(* Properties of the parser cache *)

\* C28: a result stored in the parser cache is returned to a later request with
\* the same trimmed text and serialized context only while at most 30 seconds
\* (CACHE_TTL_MS) have passed since it was stored; a request that finds the entry
\* older than that removes it and calls the language model again.
C28_CacheTtl ==
  parser.look.had =>
    /\ parser.look.hit =>
         (parser.look.at - parser.look.storedAt <= CACHE_TTL_MS /\ parser.look.value = parser.look.stored)
    /\ parser.look.at - parser.look.storedAt > CACHE_TTL_MS =>
         (~parser.look.hit /\ parser.look.removed /\ parser.look.called)
C28_Witness ==
  /\ parser.look.had /\ ~parser.look.hit
  /\ parser.look.at - parser.look.storedAt = CACHE_TTL_MS + 1
  /\ parser.look.removed /\ parser.look.called

----------------------------------------------------------------------------
(* Properties of NPC generation *)

\* C29: for every seed and site_id, two calls of generateNPC(seed, site_id),
\* made at any two times, return records equal in every field.
C29_GenerateNpcDeterministic ==
  \A i, j \in DOMAIN npc.made :
    (npc.made[i].seed = npc.made[j].seed /\ npc.made[i].site_id = npc.made[j].site_id)
      => npc.made[i].out = npc.made[j].out

----------------------------------------------------------------------------
(* Properties of the quest lists *)

\* C30: in every reachable session state no quest id occurs in both
\* quests.active and quests.completed, and no quest id occurs more than once in
\* quests.active.
C30_QuestListsDisjoint ==
  LET st == heap[session.gameState]
  IN /\ \A i \in DOMAIN st.active : ~HasId(st.completed, st.active[i].id)
     /\ \A i, j \in DOMAIN st.active : st.active[i].id = st.active[j].id => i = j

----------------------------------------------------------------------------
(* Properties of the quest journey *)

\* C31: every accepted quest can be completed: after /quest/accept, repeated
\* /quest/progress calls bring the quest to ready_to_complete (current_step
\* equal to total_steps), after which /quest/complete succeeds and the quest
\* is in quests.completed.
C31_AcceptedQuestCompletes ==
  \A q \in JourneyQuestIds :
    HasId(heap[session.gameState].active, q) ~> HasId(heap[session.gameState].completed, q)

----------------------------------------------------------------------------
(* Properties of quest acceptance during a turn *)

\* /quest/accept has just stored quest q while the /narrate turn of slot r
\* waits for the intent parser
AcceptedDuring(q, r) ==
  /\ last.op = "quest/accept" /\ last.result = "ok" /\ last.arg.questId = q
  /\ reqs[r].pc = "parse"

\* C32: a quest accepted through /quest/accept while a /narrate turn of the
\* session is suspended is still in quests.active of the stored session state
\* once that turn has finished. Stated for the step in which the suspended turn
\* finishes when that step is the next one after the acceptance: the quest is in
\* quests.active of the state the step stores.
C32_AcceptSurvivesTurn ==
  [][\A q \in AcceptQuestIds, r \in {1, 2} :
       (AcceptedDuring(q, r) /\ reqs'[r].pc = "idle")
         => HasId(heap'[session'.gameState].active, q)]_vars

\* C33: every NPC created for a settlement entered through enterL2FromL1 passes the
\* id checks of validateQuestAction: its persistent id matches the id pattern, the
\* settlement id read from it is the settlement's, and the NPC is found there, so the
\* action is not rejected with INVALID_NPC_ID_FORMAT or NPC_NOT_FOUND.
C33_NpcIdResolves ==
  layers.checked.npcId \in StoredNpcIds
    => layers.checked.error \notin {"INVALID_NPC_ID_FORMAT", "NPC_NOT_FOUND"}

\* C35: after any sequence of enterL2FromL1, enterL3FromL2, exitL3ToL2 and exitL2ToL1
\* calls, current_layer = 1 implies l2_active and l3_active are null, current_layer = 2
\* implies l2_active is set and l3_active is null, current_layer = 3 implies both are set.
C35_LayerAgrees ==
  /\ layers.current_layer = 1 => layers.l2_active = Null /\ layers.l3_active = Null
  /\ layers.current_layer = 2 => layers.l2_active # Null /\ layers.l3_active = Null
  /\ layers.current_layer = 3 => layers.l2_active # Null /\ layers.l3_active # Null

\* C36: entering a settlement cell whose settlement is already stored in
\* world.settlements leaves the stored settlement and its NPC list as they were and
\* does not generate quests.allQuestsSeeded for that id again.
C36_ReentryReuses ==
  [][\A cell \in LayerCells :
       EnterL2FromL1(cell) /\ l2_id(cell) \in DOMAIN layers.settlements
         => /\ layers'.settlements = layers.settlements
            /\ layers'.allQuestsSeeded = layers.allQuestsSeeded
            /\ layers'.l2_active[1].settlement_data = l2_id(cell)]_vars

\* a settlement is entered again at a later time than the one it was made at
C36_Witness ==
  /\ layers.reentered
  /\ layers.settlements[layers.entered].created_at < layers.now
  /\ layers.current_layer = 2

\* the offsets of the window hydrateL1Window walks
WindowOffsets == (-(StreamR + StreamP))..(StreamR + StreamP)

\* C34: after the worldgen step, for every offset (dx, dy) with max(|dx|, |dy|) <= R+P
\* whose cell lies inside the current macro's L1 grid, world.cells holds that cell with
\* known = true, and with hydrated = true exactly when max(|dx|, |dy|) <= R.
C34_WindowHydrated ==
  last.op = "worldgen" =>
    LET st == heap[session.gameState]
        p  == st.position
    IN \A dx \in WindowOffsets, dy \in WindowOffsets :
         LET lx == p.lx + dx
             ly == p.ly + dy
             k  == byKey(p.mx, p.my, lx, ly)
         IN (lx >= 0 /\ ly >= 0 /\ lx < L1W /\ ly < L1H) =>
              /\ k \in DOMAIN st.cells
              /\ st.cells[k].known
              /\ st.cells[k].hydrated <=> (Max(Abs(dx), Abs(dy)) <= StreamR)

\* the player moved, and a cell that was in the outer ring before the step is hydrated
\* after it while another went from hydrated to known only
C34_Witness ==
  /\ last.op = "worldgen"
  /\ last.post.state.position # last.pre.state.position
  /\ \E k \in (DOMAIN last.pre.state.cells) \cap (DOMAIN last.post.state.cells) :
       ~last.pre.state.cells[k].hydrated /\ last.post.state.cells[k].hydrated
  /\ \E k \in (DOMAIN last.pre.state.cells) \cap (DOMAIN last.post.state.cells) :
       last.pre.state.cells[k].hydrated /\ ~last.post.state.cells[k].hydrated

\* C37: in every generated quest structure, each choice of a step other than the last
\* has leads_to_step naming a step whose number is strictly greater than the step's
\* own and at most total_steps.
C37_ChoicesLeadForward ==
  structure.pc = "done" =>
    \A n \in 1..(Len(structure.steps) - 1) :
      \A c \in DOMAIN structure.steps[n].choices :
        /\ structure.steps[n].choices[c].leads_to_step > structure.steps[n].id
        /\ structure.steps[n].choices[c].leads_to_step <= structure.total_steps

\* C38: for one quest the narrative language model is called at most 3 times, with a
\* wait of retryDelay * 2^(attempt - 1) between consecutive attempts (1000 ms after
\* the first failure, 2000 ms after the second), and after the third failure
\* generateQuestNarrative returns success = false without a further wait.
C38_ThreeCallsBackoff ==
  \A q \in NarrativeQuests :
    LET n == retry[q]
    IN /\ n.calls <= 3
       /\ Len(n.waits) <= 2
       /\ \A i \in 1..Len(n.waits) : n.waits[i] = <<1000, 2000>>[i]
       /\ Len(n.waits) = IF n.pc = "waiting" THEN n.calls ELSE Max(n.calls - 1, 0)
       /\ (n.pc = "done" /\ n.calls > 0 /\ ~n.success) =>
            n.calls = 3 /\ n.waits = <<1000, 2000>> /\ n.returned = 3

\* a narrative whose three requests all failed
C38_Witness ==
  \E q \in NarrativeQuests :
    /\ retry[q].pc = "done" /\ ~retry[q].success
    /\ retry[q].calls = 3 /\ retry[q].waits = <<1000, 2000>>

\* the places in the keyword table's order of the biomes with a keyword in the prompt
BiomesHit(desc) == { i \in DOMAIN BiomeOrder : Matches(desc, BiomeOrder[i]) > 0 }

\* C39: the biome chosen for a world prompt is the first biome, in the order of the
\* keyword table, that has at least one keyword occurring in the prompt, however many
\* keywords of later biomes occur.
C39_FirstBiomeWins ==
  last.op = "describe" =>
    \A i \in BiomesHit(last.arg.target) :
      (\A j \in BiomesHit(last.arg.target) : i <= j)
        => heap[session.gameState].macro_biome = BiomeOrder[i]

----------------------------------------------------------------------------
(* Properties of the ranges of a generated NPC *)

\* the wealth tiers of a social tier
WealthRange(tier) ==
  IF tier = 1 THEN 7..9 ELSE IF tier = 2 THEN 5..8 ELSE IF tier = 3 THEN 2..5 ELSE 0..1

============================================================================
